---- MODULE Spec2Model ----
(***************************************************************************)
(* Oracle MCP server: connection pool lifecycle, tool-call handlers and    *)
(* the query execution engine (ConnectionManager, OracleMcpServer and the  *)
(* executor functions), modelled as a state machine.                       *)
(*                                                                         *)
(* Every driver call (createPool, pool.getConnection, conn.execute,        *)
(* conn.close, pool.close) is an await: it is one step of the task that    *)
(* issued it, its outcome (resolve, or reject with a native message) is    *)
(* chosen by the driver, and the steps of concurrently running tool calls  *)
(* interleave between awaits.                                              *)
(***************************************************************************)
EXTENDS Integers, Sequences, FiniteSets, TLC

(***************************************************************************)
(* Bounds of the model.                                                    *)
(***************************************************************************)
\* number of pools the driver can create in one run
MaxPools == 2

\* the concurrently running request tasks of the server
Tasks == {"t1", "t2"}

\* the tasks that serve database tool calls: such calls only read the manager's state
\* and own their connection, so one of them in flight is modelled, interleaved with
\* the connect and disconnect requests that any task serves
DbTasks == {"t1"}

(***************************************************************************)
(* Errors.                                                                 *)
(* A native message is modelled by the set of signatures it contains       *)
(* (String.prototype.includes is membership in that set).                  *)
(***************************************************************************)
CONNECTION_FAILED == 101
AUTH_FAILED == 102
TIMEOUT == 103
TABLE_NOT_FOUND == 301
SQL_SYNTAX_ERROR == 302
QUERY_EXECUTION_ERROR == 303
ACCESS_DENIED == 304
CONFIG_NOT_FOUND == 201
CONFIG_PARSE_ERROR == 202
MISSING_REQUIRED_PARAM == 203
FILE_EXISTS == 401
WRITE_PERMISSION_DENIED == 402
UNKNOWN == 999

\* getExitCode without the branch of the output errors
getExitCode_noOutputClass(errorCode) ==
    IF errorCode >= 100 /\ errorCode < 200 THEN 1
    ELSE IF errorCode >= 200 /\ errorCode < 300 THEN 2
    ELSE IF errorCode >= 300 /\ errorCode < 400 THEN 3
    ELSE 99

getExitCode(errorCode) ==
    IF errorCode >= 100 /\ errorCode < 200 THEN 1
    ELSE IF errorCode >= 200 /\ errorCode < 300 THEN 2
    ELSE IF errorCode >= 300 /\ errorCode < 400 THEN 3
    ELSE IF errorCode >= 400 /\ errorCode < 500 THEN 4
    ELSE 99

\* no error pending
NoErr == [cls |-> "none", code |-> 0, exitCode |-> 0, sigs |-> {}]

\* new OracleMapError(code, message): sigs are the signatures its message carries
OracleMapError(code, sigs) ==
    [cls |-> "OracleMapError", code |-> code, exitCode |-> getExitCode(code), sigs |-> sigs]

\* an error object thrown by the driver, unwrapped
NativeError(sigs) == [cls |-> "native", code |-> 0, exitCode |-> 0, sigs |-> sigs]

\* a plain JavaScript Error / TypeError raised by the server's own code
PlainError == [cls |-> "Error", code |-> 0, exitCode |-> 0, sigs |-> {}]

\* the native messages the driver raises in this model
DriverMsgs ==
    { {},
      {"ORA-01017"},
      {"TNS:Connect timeout"},
      {"NJS-040"},
      {"ORA-00942"},
      {"ORA-00942", "PLAN_TABLE"},
      {"ORA-00001"} }

\* handleConnectionError whose fallback is the classifier of query errors
handleConnectionError_queryFallback(oraError) ==
    IF "ORA-01017" \in oraError \/ "invalid username/password" \in oraError
    THEN OracleMapError(AUTH_FAILED, {})
    ELSE IF "ORA-12170" \in oraError \/ "TNS:Connect timeout" \in oraError
    THEN OracleMapError(TIMEOUT, {})
    ELSE OracleMapError(QUERY_EXECUTION_ERROR, oraError)

handleConnectionError(oraError) ==
    IF "ORA-01017" \in oraError \/ "invalid username/password" \in oraError
    THEN OracleMapError(AUTH_FAILED, {})
    ELSE IF "ORA-12170" \in oraError \/ "TNS:Connect timeout" \in oraError
    THEN OracleMapError(TIMEOUT, {})
    ELSE IF "ORA-12541" \in oraError \/ "TNS:no listener" \in oraError
    THEN OracleMapError(CONNECTION_FAILED, {})
    ELSE IF "ORA-12514" \in oraError
            \/ "TNS:listener does not currently know of service" \in oraError
    THEN OracleMapError(CONNECTION_FAILED, {})
    ELSE OracleMapError(CONNECTION_FAILED, oraError)

handleQueryError(oraError) ==
    IF "ORA-00942" \in oraError THEN OracleMapError(TABLE_NOT_FOUND, {})
    ELSE IF "ORA-00904" \in oraError THEN OracleMapError(SQL_SYNTAX_ERROR, {})
    ELSE IF "ORA-00933" \in oraError THEN OracleMapError(SQL_SYNTAX_ERROR, {})
    ELSE OracleMapError(QUERY_EXECUTION_ERROR, oraError)

handleDmlError(oraError) ==
    IF "ORA-00942" \in oraError THEN OracleMapError(TABLE_NOT_FOUND, {})
    ELSE IF "ORA-00904" \in oraError THEN OracleMapError(SQL_SYNTAX_ERROR, {})
    ELSE IF "ORA-01400" \in oraError THEN OracleMapError(SQL_SYNTAX_ERROR, {})
    ELSE IF "ORA-00001" \in oraError THEN OracleMapError(SQL_SYNTAX_ERROR, {})
    ELSE IF "ORA-02291" \in oraError THEN OracleMapError(SQL_SYNTAX_ERROR, {})
    ELSE OracleMapError(QUERY_EXECUTION_ERROR, oraError)

\* the catch block of executeFlashbackQuery
flashbackError(oraError) ==
    IF "ORA-01555" \in oraError THEN OracleMapError(QUERY_EXECUTION_ERROR, {})
    ELSE IF "ORA-08180" \in oraError THEN OracleMapError(QUERY_EXECUTION_ERROR, {})
    ELSE handleQueryError(oraError)

\* the catch block of getExplainPlan
explainError(oraError) ==
    IF "ORA-00942" \in oraError /\ "PLAN_TABLE" \in oraError
    THEN OracleMapError(QUERY_EXECUTION_ERROR, {})
    ELSE OracleMapError(QUERY_EXECUTION_ERROR, oraError)

(***************************************************************************)
(* SQL text.                                                               *)
(* A string is a sequence of lexemes: a lexeme is a whitespace character,  *)
(* a punctuation character, or a maximal run of word characters            *)
(* [A-Za-z0-9_] (two word lexemes are never adjacent).  A JavaScript value *)
(* passed where a string is expected is [str |-> is it a string, lex |->   *)
(* its lexemes].                                                           *)
(***************************************************************************)
Whitespace == {" ", "\n"}
Punct == {";", "(", ")", ",", "=", "*", ":"}

JsString(lex) == [str |-> TRUE, lex |-> lex]
NotAString == [str |-> FALSE, lex |-> <<>>]

\* String.prototype.toUpperCase on one lexeme
toUpperCase(w) ==
    CASE w = "select" -> "SELECT"
      [] w = "Select" -> "SELECT"
      [] w = "update" -> "UPDATE"
      [] w = "insert" -> "INSERT"
      [] w = "delete" -> "DELETE"
      [] w = "drop" -> "DROP"
      [] w = "Drop" -> "DROP"
      [] w = "where" -> "WHERE"
      [] w = "Where" -> "WHERE"
      [] w = "from" -> "FROM"
      [] w = "employees" -> "EMPLOYEES"
      [] w = "Employees" -> "EMPLOYEES"
      [] w = "orders" -> "ORDERS"
      [] w = "clob" -> "CLOB"
      [] w = "Orders" -> "ORDERS"
      [] w = "deleted_flag" -> "DELETED_FLAG"
      [] w = "Delete" -> "DELETE"
      [] w = "truncate" -> "TRUNCATE"
      [] w = "alter" -> "ALTER"
      [] w = "create" -> "CREATE"
      [] w = "grant" -> "GRANT"
      [] w = "revoke" -> "REVOKE"
      [] w = "updates" -> "UPDATES"
      [] w = "selected" -> "SELECTED"
      [] OTHER -> w

UpperSeq(s) == [i \in 1..Len(s) |-> toUpperCase(s[i])]

\* the upper-case words that have a keyword as a proper character prefix
PrefixPairs ==
    { <<"SELECTED", "SELECT">>, <<"UPDATED_AT", "UPDATE">>, <<"UPDATES", "UPDATE">>,
      <<"INSERTED", "INSERT">>, <<"DELETED_FLAG", "DELETE">>, <<"CREATED_AT", "CREATE">>,
      <<"WHERE_X", "WHERE">> }

\* String.prototype.trim
RECURSIVE trimStart(_)
trimStart(s) ==
    IF s # <<>> /\ Head(s) \in Whitespace THEN trimStart(Tail(s)) ELSE s

RECURSIVE trimEnd(_)
trimEnd(s) ==
    IF s # <<>> /\ s[Len(s)] \in Whitespace THEN trimEnd(SubSeq(s, 1, Len(s) - 1)) ELSE s

trim(s) == trimEnd(trimStart(s))

\* startsWith written as includes: the verb anywhere in the text
startsWith_includes(upperSql, verb) ==
    \E i \in 1..Len(upperSql) :
        upperSql[i] = verb \/ <<upperSql[i], verb>> \in PrefixPairs

\* upperSql.startsWith(verb): a prefix test on characters
startsWith(upperSql, verb) ==
    /\ upperSql # <<>>
    /\ \/ upperSql[1] = verb
       \/ <<upperSql[1], verb>> \in PrefixPairs

\* new RegExp(`(^|\\s)${keyword}(\\s|$)`, 'i').test(s)
matchesSpaced(s, keyword) ==
    \E i \in 1..Len(s) :
        /\ toUpperCase(s[i]) = keyword
        /\ (i = 1 \/ s[i - 1] \in Whitespace)
        /\ (i = Len(s) \/ s[i + 1] \in Whitespace)

\* new RegExp(`(^|\\s|\\()${keyword}(\\s|\\(|$)`, 'i').test(s)
matchesDml(s, keyword) ==
    \E i \in 1..Len(s) :
        /\ toUpperCase(s[i]) = keyword
        /\ (i = 1 \/ s[i - 1] \in Whitespace \cup {"("})
        /\ (i = Len(s) \/ s[i + 1] \in Whitespace \cup {"("})

\* /WHERE/i.test(s): the letters anywhere, inside a longer identifier too
matchesWord_noBoundary(s, keyword) ==
    \E i \in 1..Len(s) :
        toUpperCase(s[i]) = keyword \/ <<toUpperCase(s[i]), keyword>> \in PrefixPairs

\* /\bWHERE\b/i.test(s): the word, delimited by any non-word character
matchesWord(s, keyword) == \E i \in 1..Len(s) : toUpperCase(s[i]) = keyword

dangerousKeywords == <<"DROP", "DELETE", "UPDATE", "INSERT", "TRUNCATE", "ALTER", "CREATE">>
DML_ALLOWED_VERBS == <<"INSERT", "UPDATE">>
DML_BLACKLIST_KEYWORDS == <<"DELETE", "TRUNCATE", "DROP", "ALTER", "CREATE", "GRANT", "REVOKE">>

\* the loop over the list kws: its first element that is in the set hits, or "" when
\* none is
FirstIn(kws, hits) ==
    IF \E i \in 1..Len(kws) : kws[i] \in hits
    THEN kws[CHOOSE i \in 1..Len(kws) :
                 kws[i] \in hits /\ \A j \in 1..(i - 1) : kws[j] \notin hits]
    ELSE ""

\* the elements of a list
Elems(kws) == {kws[i] : i \in 1..Len(kws)}

validateSql(sql) ==
    IF ~sql.str \/ sql.lex = <<>>
    THEN [valid |-> FALSE, error |-> "empty", keyword |-> ""]
    ELSE IF ~startsWith(UpperSeq(trim(sql.lex)), "SELECT")
    THEN [valid |-> FALSE, error |-> "only SELECT", keyword |-> ""]
    ELSE LET hit == {k \in Elems(dangerousKeywords) : matchesSpaced(sql.lex, k)}
             kw == FirstIn(dangerousKeywords, hit)
         IN  IF kw # ""
             THEN [valid |-> FALSE, error |-> "keyword not allowed", keyword |-> kw]
             ELSE [valid |-> TRUE, error |-> "", keyword |-> ""]

validateDmlSql(sql) ==
    IF ~sql.str \/ sql.lex = <<>>
    THEN [valid |-> FALSE, error |-> "empty", verb |-> "", keyword |-> ""]
    ELSE LET trimmedSql == trim(sql.lex)
             upperSql == UpperSeq(trimmedSql)
             isVerb == {v \in Elems(DML_ALLOWED_VERBS) : startsWith(upperSql, v)}
             matchedVerb == FirstIn(DML_ALLOWED_VERBS, isVerb)
             hit == {k \in Elems(DML_BLACKLIST_KEYWORDS) : matchesDml(trimmedSql, k)}
             kw == FirstIn(DML_BLACKLIST_KEYWORDS, hit)
         IN  IF matchedVerb = ""
             THEN [valid |-> FALSE, error |-> "only INSERT/UPDATE", verb |-> "", keyword |-> ""]
             ELSE IF kw # ""
             THEN [valid |-> FALSE, error |-> "forbidden keyword", verb |-> matchedVerb,
                   keyword |-> kw]
             ELSE IF matchedVerb = "UPDATE" /\ ~matchesWord(trimmedSql, "WHERE")
             THEN [valid |-> FALSE, error |-> "WHERE required", verb |-> matchedVerb,
                   keyword |-> ""]
             ELSE [valid |-> TRUE, error |-> "", verb |-> matchedVerb, keyword |-> ""]

\* caller-supplied SQL of the model
SqlInputs ==
    { NotAString,
      JsString(<<>>),
      JsString(<<" ", "select", " ", "*", " ", "from", " ", "T", ";">>),
      JsString(<<"SELECT", " ", "*", " ", "FROM", " ", "T", ";", "DROP", " ", "TABLE", " ", "T">>),
      JsString(<<"SELECT", " ", "*", " ", "FROM", " ", "T", " ", "Drop", " ", "TABLE", " ", "T">>),
      JsString(<<"UPDATE", " ", "T", " ", "SET", " ", "X", "=", "1", " ", "WHERE", " ", "ID", "=", "1">>),
      JsString(<<"update", " ", "T", " ", "SET", " ", "X", "=", "1">>),
      JsString(<<"INSERT", " ", "INTO", " ", "T", " ", "VALUES", "(", "1", ")">>),
      JsString(<<"INSERT", " ", "INTO", " ", "T", " ", "VALUES", "(", "1", ")", ";", " ", "DELETE", " ", "FROM", " ", "T">>),
      JsString(<<"DELETE", " ", "FROM", " ", "T">>),
      JsString(<<"SELECT", " ", "*", " ", "FROM", " ", "T", " ", "FETCH", " ", "NEXT", " ", "5000", " ", "ROWS", " ", "ONLY">>) }

(***************************************************************************)
(* Security policy and SQL construction.                                   *)
(* An optional number is <<>> (undefined / null) or <<n>>.                 *)
(***************************************************************************)
MAX_ROWS_LIMIT == 1000

Undefined == <<>>
Num(n) == <<n>>

Min(a, b) == IF a < b THEN a ELSE b
Max(a, b) == IF a > b THEN a ELSE b

\* enforceRowLimit without the lower clamp Math.max(1, ...)
enforceRowLimit_noFloor(requestedLimit, defaultLimit) ==
    IF requestedLimit = Undefined
    THEN Min(defaultLimit, MAX_ROWS_LIMIT)
    ELSE Min(requestedLimit[1], MAX_ROWS_LIMIT)

\* enforceRowLimit without the upper clamp Math.min(..., MAX_ROWS_LIMIT)
enforceRowLimit_noCeiling(requestedLimit, defaultLimit) ==
    IF requestedLimit = Undefined
    THEN defaultLimit
    ELSE Max(1, requestedLimit[1])

enforceRowLimit(requestedLimit, defaultLimit) ==
    IF requestedLimit = Undefined
    THEN Min(defaultLimit, MAX_ROWS_LIMIT)
    ELSE Min(Max(1, requestedLimit[1]), MAX_ROWS_LIMIT)

\* checkTableAccess(tableName).allowed under the whitelist wl (<<>> when none is set,
\* otherwise <<S>> with S the set of upper-cased names)
checkTableAccess(wl, tableName) ==
    IF wl = <<>> THEN TRUE ELSE toUpperCase(tableName) \in wl[1]

\* String.prototype.split(sep) for a one-character separator
RECURSIVE split(_, _)
split(s, sep) ==
    IF \E i \in 1..Len(s) : s[i] = sep
    THEN LET i == CHOOSE k \in 1..Len(s) : s[k] = sep /\ \A j \in 1..(k - 1) : s[j] # sep
         IN  <<SubSeq(s, 1, i - 1)>> \o split(SubSeq(s, i + 1, Len(s)), sep)
    ELSE <<s>>

\* new Set(list) listed by Array.from: the elements in the order of their first
\* occurrence
RECURSIVE setOrder(_)
setOrder(list) ==
    IF list = <<>> THEN <<>>
    ELSE LET front == setOrder(SubSeq(list, 1, Len(list) - 1))
             last == list[Len(list)]
         IN  IF \E i \in 1..Len(front) : front[i] = last THEN front
             ELSE Append(front, last)

\* the process environment's ORACLE_TABLE_WHITELIST: Undefined when unset, otherwise
\* its text as lexemes. The result is null (Undefined) or the Set, as the list of its
\* elements, each the lexemes of one upper-cased name
NoWhitelist == Undefined
getTableWhitelist(env) ==
    IF env = Undefined \/ env = <<>> \/ trim(env) = <<>>
    THEN NoWhitelist
    ELSE LET pieces == split(env, ",")
             mapped == [i \in 1..Len(pieces) |-> UpperSeq(trim(pieces[i]))]
             tables == SelectSeq(mapped, LAMBDA t : Len(t) > 0)
         IN  <<setOrder(tables)>>

\* the message of a denial: the table as the caller wrote it, and the allowed tables
DeniedMessage(tableName, tables) == [table |-> tableName, allowedTables |-> tables]
NoMessage == [table |-> "", allowedTables |-> <<>>]

\* checkTableAccess compared without upper-casing the caller's name
checkTableAccessOf_caseSensitive(env, tableName) ==
    LET wl == getTableWhitelist(env)
    IN  IF wl = NoWhitelist THEN [allowed |-> TRUE, message |-> NoMessage]
        ELSE IF \E i \in 1..Len(wl[1]) : wl[1][i] = <<tableName>>
        THEN [allowed |-> TRUE, message |-> NoMessage]
        ELSE [allowed |-> FALSE, message |-> DeniedMessage(tableName, wl[1])]

\* checkTableAccess(tableName) in a process whose ORACLE_TABLE_WHITELIST is env
checkTableAccessOf(env, tableName) ==
    LET wl == getTableWhitelist(env)
        upperTableName == toUpperCase(tableName)
    IN  IF wl = NoWhitelist THEN [allowed |-> TRUE, message |-> NoMessage]
        ELSE IF \E i \in 1..Len(wl[1]) : wl[1][i] = <<upperTableName>>
        THEN [allowed |-> TRUE, message |-> NoMessage]
        ELSE [allowed |-> FALSE, message |-> DeniedMessage(tableName, wl[1])]

\* buildPaginatedSql without the OFFSET 0 ROWS that precedes a lone FETCH clause
buildPaginatedSql_noFiller(baseSql, limit, offset) ==
    LET t == trim(baseSql)
        sql == IF t # <<>> /\ t[Len(t)] = ";" THEN SubSeq(t, 1, Len(t) - 1) ELSE t
        offPart == IF offset # Undefined /\ offset[1] > 0
                   THEN <<"OFFSET", " ", ToString(offset[1]), " ", "ROWS", " ">>
                   ELSE <<>>
        limPart == IF limit # Undefined /\ limit[1] > 0
                   THEN <<"FETCH", " ", "NEXT", " ", ToString(limit[1]), " ", "ROWS", " ",
                          "ONLY">>
                   ELSE <<>>
        parts == IF limPart = <<>> /\ offPart # <<>>
                 THEN SubSeq(offPart, 1, Len(offPart) - 1)
                 ELSE offPart \o limPart
    IN  IF parts # <<>> THEN sql \o <<" ">> \o parts ELSE sql

buildPaginatedSql(baseSql, limit, offset) ==
    LET t == trim(baseSql)
        sql == IF t # <<>> /\ t[Len(t)] = ";" THEN SubSeq(t, 1, Len(t) - 1) ELSE t
        offPart == IF offset # Undefined /\ offset[1] > 0
                   THEN <<"OFFSET", " ", ToString(offset[1]), " ", "ROWS">>
                   ELSE <<>>
        limPart == IF limit # Undefined /\ limit[1] > 0
                   THEN (IF offPart = <<>>
                         THEN <<"OFFSET", " ", "0", " ", "ROWS", " ">>
                         ELSE <<" ">>)
                        \o <<"FETCH", " ", "NEXT", " ", ToString(limit[1]), " ", "ROWS", " ", "ONLY">>
                   ELSE <<>>
        parts == offPart \o limPart
    IN  IF parts # <<>> THEN sql \o <<" ">> \o parts ELSE sql

buildTableQuerySql(tableName, limit, offset) ==
    buildPaginatedSql(<<"SELECT", " ", "*", " ", "FROM", " ", toUpperCase(tableName)>>,
                      limit, offset)

\* an ISO 8601 timestamp is a sequence of pieces: runs of digits and the single
\* characters between them ("-", ":", "T", ".", "Z", "+", " ")
TimestampInputs ==
    { Undefined,
      <<"2024", "-", "01", "-", "15", "T", "14", ":", "30", ":", "00", "Z">>,
      <<"2024", "-", "01", "-", "15", "T", "14", ":", "30", ":", "00", ".", "000", "Z">> }

\* s.replace(ch, by): the first occurrence of the one-character piece ch is replaced
replaceFirst(s, ch, by) ==
    IF \E i \in 1..Len(s) : s[i] = ch
    THEN LET i == CHOOSE k \in 1..Len(s) : s[k] = ch /\ \A j \in 1..(k - 1) : s[j] # ch
         IN  SubSeq(s, 1, i - 1) \o by \o SubSeq(s, i + 1, Len(s))
    ELSE s

\* s.split('.')[0]
beforeDot(s) ==
    IF \E i \in 1..Len(s) : s[i] = "."
    THEN LET i == CHOOSE k \in 1..Len(s) : s[k] = "." /\ \A j \in 1..(k - 1) : s[j] # "."
         IN  SubSeq(s, 1, i - 1)
    ELSE s

\* a word lexeme (\w+)
IsWord(x) == x \notin Whitespace \cup Punct \cup {"'", "-", "."}

\* the index after the run of whitespace that starts at i
RECURSIVE skipSpace(_, _)
skipSpace(s, i) == IF i <= Len(s) /\ s[i] \in Whitespace THEN skipSpace(s, i + 1) ELSE i

\* /\bFROM\s+(\w+)/i matches at lexeme i
fromMatchAt(s, i) ==
    /\ toUpperCase(s[i]) = "FROM"
    /\ i + 1 <= Len(s) /\ s[i + 1] \in Whitespace
    /\ skipSpace(s, i + 1) <= Len(s)
    /\ IsWord(s[skipSpace(s, i + 1)])

buildFlashbackSql(baseSql, asOfTimestamp) ==
    IF asOfTimestamp = Undefined THEN baseSql
    ELSE LET timestamp == beforeDot(replaceFirst(replaceFirst(asOfTimestamp, "T", <<" ">>),
                                                 "Z", <<>>))
         IN  IF \E i \in 1..Len(baseSql) : fromMatchAt(baseSql, i)
             THEN LET i == CHOOSE k \in 1..Len(baseSql) :
                               /\ fromMatchAt(baseSql, k)
                               /\ \A j \in 1..(k - 1) : ~fromMatchAt(baseSql, j)
                      w == skipSpace(baseSql, i + 1)
                  IN  SubSeq(baseSql, 1, i - 1)
                      \o <<"FROM", " ", baseSql[w], " ", "AS", " ", "OF", " ", "TIMESTAMP", " ",
                           "TO_TIMESTAMP", "(", "'">>
                      \o timestamp
                      \o <<"'", ",", " ", "'", "YYYY", "-", "MM", "-", "DD", " ", "HH24", ":",
                           "MI", ":", "SS", "'", ")">>
                      \o SubSeq(baseSql, w + 1, Len(baseSql))
             ELSE baseSql

\* the row counts of the FETCH NEXT clauses of a statement, in the order they occur
RECURSIVE fetchValues(_)
fetchValues(s) ==
    IF Len(s) < 5 THEN <<>>
    ELSE IF /\ toUpperCase(s[1]) = "FETCH" /\ s[2] \in Whitespace
            /\ toUpperCase(s[3]) = "NEXT" /\ s[4] \in Whitespace
         THEN <<s[5]>> \o fetchValues(SubSeq(s, 6, Len(s)))
         ELSE fetchValues(Tail(s))

\* what a read operation passes to conn.execute: the statement and the maxRows option
Submitted(text, maxRows) == [kind |-> "submitted", text |-> text, maxRows |-> maxRows]

\* executeQuery: paginatedSql and the maxRows option of its conn.execute
executeQuerySubmits(sql, limit, offset) ==
    LET safeLimit == enforceRowLimit(limit, 100)
    IN  Submitted(buildPaginatedSql(sql, Num(safeLimit), offset), safeLimit)

\* queryTable: the statement of the executeQuery(conn, sql, {}) it calls
queryTableSubmits(tableName, limit, offset) ==
    executeQuerySubmits(
        buildTableQuerySql(tableName, Num(enforceRowLimit(limit, 100)), offset),
        Undefined, Undefined)

\* executeFlashbackQuery: flashbackSql and the maxRows option of its conn.execute
executeFlashbackQuerySubmits(sql, asOfTimestamp, limit, offset) ==
    LET safeLimit == enforceRowLimit(limit, 100)
    IN  Submitted(buildPaginatedSql(buildFlashbackSql(sql, asOfTimestamp), Num(safeLimit), offset),
                  safeLimit)

(***************************************************************************)
(* State.                                                                  *)
(***************************************************************************)
VARIABLES
    pool,         \* ConnectionManager.pool: 0 is null, otherwise the driver pool it refers to
    isConnected,  \* OracleMcpServer.isConnected
    poolState,    \* driver: per pool "none" (not created), "open" or "closed"
    whitelist,    \* ORACLE_TABLE_WHITELIST: <<>> when unset, else <<set of upper-cased names>>
    pc,           \* per task: the await it is suspended at
    tool,         \* per task: the tool name of the request it serves
    poolRef,      \* per task: the pool object its pending driver call was issued on
    conn,         \* per task: the handler's local conn ("none", "c1" first checkout, "c2" retry)
    connState,    \* driver: per task and checked-out connection "none", "out", "closed", "closeFailed"
    closeCalls,   \* per task and connection: number of conn.close() calls made on it
    relCalls,     \* per task: number of releaseConnection(conn) invocations of this call
    checkouts,    \* per task: number of pool.getConnection() calls of this getConnection()
    probe,        \* per task and connection: outcome of its liveness probe ("none", "ok", "failed")
    gcState,      \* per task: getConnection() is "none" (not called), "called", "returned", "threw"
    log,          \* per task: the statements the engine operation submitted on conn, in order
    caught,       \* per task: the native message caught by the operation's catch block
    opErr,        \* per task: the error the engine operation threw (NoErr: none)
    opState,      \* per task: "none", "running", "returned" or "threw" (the engine operation)
    resp,         \* per task: the response of the tool call ("none" until produced)
    argClass,     \* per task: what the validator and the whitelist say of the call's arguments
    fn,           \* the exported pure function applied to fnArg ("none": not applied yet)
    fnArg,        \* the argument a caller passes to an exported pure function
    fnRes         \* the value the function returned

vars == <<pool, isConnected, poolState, whitelist, pc, tool, poolRef, conn, connState,
          closeCalls, relCalls, checkouts, probe, gcState, log, caught, opErr, opState, resp,
          argClass, fn, fnArg, fnRes>>

Slots == {"c1", "c2"}

DbTools ==
    { "oracle_list_tables", "oracle_query", "oracle_table_data", "oracle_table_count",
      "oracle_explain_plan", "oracle_flashback_query", "oracle_execute_dml",
      "oracle_insert_record" }

NoResp == [kind |-> "none", isError |-> FALSE, err |-> NoErr]
SuccessResp == [kind |-> "response", isError |-> FALSE, err |-> NoErr]
\* the catch block of the CallToolRequestSchema handler
ErrorResp(e) == [kind |-> "response", isError |-> TRUE, err |-> e]

\* ORACLE_TABLE_WHITELIST settings of the model
Whitelists == { <<>>, <<{"EMPLOYEES"}>> }

NoCaught == <<>>

\* no argument of the kind in the call
NoArgClass == [sql |-> "none", table |-> "none"]

\* nothing passed to a pure function, nothing returned
NoArg == [kind |-> "none"]
NoRes == [kind |-> "none"]

\* the server after construction
InitServer ==
    /\ pool = 0
    /\ isConnected = FALSE
    /\ poolState = [p \in 1..MaxPools |-> "none"]
    /\ whitelist \in Whitelists
    /\ pc = [t \in Tasks |-> "idle"]
    /\ tool = [t \in Tasks |-> "none"]
    /\ poolRef = [t \in Tasks |-> 0]
    /\ conn = [t \in Tasks |-> "none"]
    /\ connState = [t \in Tasks |-> [c \in Slots |-> "none"]]
    /\ closeCalls = [t \in Tasks |-> [c \in Slots |-> 0]]
    /\ relCalls = [t \in Tasks |-> 0]
    /\ checkouts = [t \in Tasks |-> 0]
    /\ probe = [t \in Tasks |-> [c \in Slots |-> "none"]]
    /\ gcState = [t \in Tasks |-> "none"]
    /\ log = [t \in Tasks |-> <<>>]
    /\ caught = [t \in Tasks |-> NoCaught]
    /\ opErr = [t \in Tasks |-> NoErr]
    /\ opState = [t \in Tasks |-> "none"]
    /\ resp = [t \in Tasks |-> NoResp]
    /\ argClass = [t \in Tasks |-> NoArgClass]

Init ==
    /\ InitServer
    /\ fn = "none"
    /\ fnArg = NoArg
    /\ fnRes = NoRes

ManagerVars == <<pool, isConnected, poolState, whitelist>>
ArgVars == <<argClass>>
EvalVars == <<fn, fnArg, fnRes>>
ConnVars == <<poolRef, conn, connState, closeCalls, relCalls, checkouts, probe, gcState>>
OpVars == <<log, caught, opErr, opState>>

\* the dispatcher returns the handler's result, or converts what it threw
Respond(t, r) ==
    /\ resp' = [resp EXCEPT ![t] = r]
    /\ pc' = [pc EXCEPT ![t] = "done"]

(***************************************************************************)
(* oracle_connect: handleConnect and ConnectionManager.createPool          *)
(***************************************************************************)
\* CallConnect that raises the connected flag before the pool exists
CallConnect_eagerFlag(t) ==
    /\ pc[t] = "idle"
    /\ tool' = [tool EXCEPT ![t] = "oracle_connect"]
    /\ pc' = [pc EXCEPT ![t] = "createPool"]
    /\ isConnected' = TRUE
    /\ UNCHANGED <<pool, poolState, whitelist, ArgVars, EvalVars, ConnVars, OpVars, resp>>

\* handleConnect up to the await of oracledb.createPool
CallConnect(t) ==
    /\ pc[t] = "idle"
    /\ tool' = [tool EXCEPT ![t] = "oracle_connect"]
    /\ pc' = [pc EXCEPT ![t] = "createPool"]
    /\ UNCHANGED <<ManagerVars, ArgVars, EvalVars, ConnVars, OpVars, resp>>

\* oracledb.createPool settles; createPool assigns this.pool or throws the classified error
CreatePoolReturn(t) ==
    /\ pc[t] = "createPool"
    /\ \/ /\ \E p \in 1..MaxPools :
                /\ poolState[p] = "none"
                /\ \A q \in 1..(p - 1) : poolState[q] # "none"
                /\ poolState' = [poolState EXCEPT ![p] = "open"]
                /\ pool' = p
          /\ pc' = [pc EXCEPT ![t] = "connected"]
          /\ UNCHANGED resp
       \/ /\ \E msg \in DriverMsgs : Respond(t, ErrorResp(handleConnectionError(msg)))
          /\ UNCHANGED <<pool, poolState>>
    /\ UNCHANGED <<isConnected, whitelist, ArgVars, EvalVars, tool, ConnVars, OpVars>>

\* handleConnect after createPool resolved
ConnectFinish(t) ==
    /\ pc[t] = "connected"
    /\ isConnected' = TRUE
    /\ Respond(t, SuccessResp)
    /\ UNCHANGED <<pool, poolState, whitelist, ArgVars, EvalVars, tool, ConnVars, OpVars>>

(***************************************************************************)
(* oracle_disconnect: handleDisconnect and ConnectionManager.close         *)
(***************************************************************************)
\* handleDisconnect up to the await inside close()
CallDisconnect(t) ==
    /\ pc[t] = "idle"
    /\ tool' = [tool EXCEPT ![t] = "oracle_disconnect"]
    /\ IF pool # 0
       THEN /\ poolRef' = [poolRef EXCEPT ![t] = pool]
            /\ pc' = [pc EXCEPT ![t] = "closePool"]
       ELSE /\ pc' = [pc EXCEPT ![t] = "disconnecting"]
            /\ UNCHANGED poolRef
    /\ UNCHANGED <<ManagerVars, ArgVars, EvalVars, conn, connState, closeCalls, relCalls, checkouts, probe,
                   gcState, OpVars, resp>>

\* this.pool.close(0) settles: on success this.pool = null, on failure the error is logged
ClosePoolReturn(t) ==
    /\ pc[t] = "closePool"
    /\ \/ /\ poolState[poolRef[t]] = "open"
          /\ poolState' = [poolState EXCEPT ![poolRef[t]] = "closed"]
          /\ pool' = 0
       \/ UNCHANGED <<pool, poolState>>
    /\ pc' = [pc EXCEPT ![t] = "disconnecting"]
    /\ UNCHANGED <<isConnected, whitelist, ArgVars, EvalVars, tool, ConnVars, OpVars, resp>>

\* handleDisconnect after close() resolved
DisconnectFinish(t) ==
    /\ pc[t] = "disconnecting"
    /\ isConnected' = FALSE
    /\ Respond(t, SuccessResp)
    /\ UNCHANGED <<pool, poolState, whitelist, ArgVars, EvalVars, tool, ConnVars, OpVars>>

(***************************************************************************)
(* Database tool calls: checkConnection, ConnectionManager.getConnection,  *)
(* the engine operation, and releaseConnection in the handler's finally.   *)
(***************************************************************************)
\* the tools whose argument is SQL text of the caller
SqlTools ==
    {"oracle_query", "oracle_flashback_query", "oracle_explain_plan", "oracle_execute_dml"}

\* CallDb that validates the caller's SQL before it asks for a connection
CallDb_validateFirst(t, name) ==
    /\ t \in DbTasks
    /\ pc[t] = "idle"
    /\ isConnected
    /\ name \in SqlTools
    /\ tool' = [tool EXCEPT ![t] = name]
    /\ \E sql \in SqlInputs :
          /\ ~validateSql(sql).valid
          /\ argClass' = [argClass EXCEPT ![t] = [sql |-> "rejected", table |-> "none"]]
    /\ Respond(t, ErrorResp(OracleMapError(SQL_SYNTAX_ERROR, {})))
    /\ UNCHANGED <<ManagerVars, EvalVars, ConnVars, OpVars>>

\* a handler from its entry to the first await inside getConnection()
CallDb(t, name) ==
    /\ t \in DbTasks
    /\ pc[t] = "idle"
    /\ tool' = [tool EXCEPT ![t] = name]
    /\ IF ~isConnected
       THEN \* checkConnection throws
            /\ Respond(t, ErrorResp(PlainError))
            /\ UNCHANGED <<poolRef, checkouts, gcState>>
       ELSE IF pool = 0
       THEN \* getConnection: the pool is not initialised
            /\ Respond(t, ErrorResp(OracleMapError(CONNECTION_FAILED, {})))
            /\ gcState' = [gcState EXCEPT ![t] = "threw"]
            /\ UNCHANGED <<poolRef, checkouts>>
       ELSE /\ poolRef' = [poolRef EXCEPT ![t] = pool]
            /\ checkouts' = [checkouts EXCEPT ![t] = 1]
            /\ gcState' = [gcState EXCEPT ![t] = "called"]
            /\ pc' = [pc EXCEPT ![t] = "checkout"]
            /\ UNCHANGED resp
    /\ UNCHANGED <<ManagerVars, ArgVars, EvalVars, conn, connState, closeCalls, relCalls, probe, OpVars>>

\* the first this.pool.getConnection() settles
Checkout(t) ==
    /\ pc[t] = "checkout"
    /\ \/ /\ poolState[poolRef[t]] = "open"
          /\ connState' = [connState EXCEPT ![t]["c1"] = "out"]
          /\ pc' = [pc EXCEPT ![t] = "ping"]
          /\ UNCHANGED <<resp, gcState>>
       \/ /\ \E msg \in DriverMsgs : Respond(t, ErrorResp(handleConnectionError(msg)))
          /\ gcState' = [gcState EXCEPT ![t] = "threw"]
          /\ UNCHANGED connState
    /\ UNCHANGED <<ManagerVars, ArgVars, EvalVars, tool, poolRef, conn, closeCalls, relCalls, checkouts, probe,
                   OpVars>>

\* Ping that retries at once, without closing the stale connection
Ping_noClose(t) ==
    /\ pc[t] = "ping"
    /\ \/ /\ probe' = [probe EXCEPT ![t]["c1"] = "ok"]
          /\ conn' = [conn EXCEPT ![t] = "c1"]
          /\ gcState' = [gcState EXCEPT ![t] = "returned"]
          /\ pc' = [pc EXCEPT ![t] = "begin"]
       \/ /\ probe' = [probe EXCEPT ![t]["c1"] = "failed"]
          /\ pc' = [pc EXCEPT ![t] = "retry"]
          /\ UNCHANGED <<conn, gcState>>
    /\ UNCHANGED <<ManagerVars, ArgVars, EvalVars, tool, poolRef, connState, closeCalls, relCalls, checkouts,
                   OpVars, resp>>

\* conn.execute('SELECT 1 FROM DUAL') settles
Ping(t) ==
    /\ pc[t] = "ping"
    /\ \/ /\ probe' = [probe EXCEPT ![t]["c1"] = "ok"]
          /\ conn' = [conn EXCEPT ![t] = "c1"]
          /\ gcState' = [gcState EXCEPT ![t] = "returned"]
          /\ pc' = [pc EXCEPT ![t] = "begin"]
       \/ /\ probe' = [probe EXCEPT ![t]["c1"] = "failed"]
          /\ pc' = [pc EXCEPT ![t] = "closeStale"]
          /\ UNCHANGED <<conn, gcState>>
    /\ UNCHANGED <<ManagerVars, ArgVars, EvalVars, tool, poolRef, connState, closeCalls, relCalls, checkouts,
                   OpVars, resp>>

\* the close of the stale connection settles; its failure is ignored
CloseStale(t) ==
    /\ pc[t] = "closeStale"
    /\ closeCalls' = [closeCalls EXCEPT ![t]["c1"] = @ + 1]
    /\ \E ok \in BOOLEAN :
          connState' = [connState EXCEPT ![t]["c1"] = IF ok THEN "closed" ELSE "closeFailed"]
    /\ pc' = [pc EXCEPT ![t] = "retry"]
    /\ UNCHANGED <<ManagerVars, ArgVars, EvalVars, tool, poolRef, conn, relCalls, checkouts, probe, gcState,
                   OpVars, resp>>

\* return await this.pool.getConnection(): the retry checkout, on the pool the manager
\* holds now; with this.pool null the call itself raises a TypeError
RetryCheckout(t) ==
    /\ pc[t] = "retry"
    /\ IF pool = 0
       THEN /\ Respond(t, ErrorResp(handleConnectionError({})))
            /\ gcState' = [gcState EXCEPT ![t] = "threw"]
            /\ UNCHANGED <<poolRef, checkouts, conn, connState>>
       ELSE /\ poolRef' = [poolRef EXCEPT ![t] = pool]
            /\ checkouts' = [checkouts EXCEPT ![t] = @ + 1]
            /\ \/ /\ poolState[pool] = "open"
                  /\ connState' = [connState EXCEPT ![t]["c2"] = "out"]
                  /\ conn' = [conn EXCEPT ![t] = "c2"]
                  /\ gcState' = [gcState EXCEPT ![t] = "returned"]
                  /\ pc' = [pc EXCEPT ![t] = "begin"]
                  /\ UNCHANGED resp
               \/ /\ \E msg \in DriverMsgs :
                        Respond(t, ErrorResp(handleConnectionError(msg)))
                  /\ gcState' = [gcState EXCEPT ![t] = "threw"]
                  /\ UNCHANGED <<conn, connState>>
    /\ UNCHANGED <<ManagerVars, ArgVars, EvalVars, tool, closeCalls, relCalls, probe, OpVars>>

\* what the handler produces once releaseConnection has returned: release failures are
\* logged, never thrown
afterRelease(operr, closeOk, msg) ==
    IF operr = NoErr THEN SuccessResp ELSE ErrorResp(operr)

\* Release without the finally block: the connection is released only when the
\* operation returned
Release_onlyOnSuccess(t) ==
    /\ pc[t] = "release"
    /\ IF opErr[t] = NoErr
       THEN /\ relCalls' = [relCalls EXCEPT ![t] = @ + 1]
            /\ closeCalls' = [closeCalls EXCEPT ![t][conn[t]] = @ + 1]
            /\ \E ok \in BOOLEAN :
                  connState' = [connState EXCEPT ![t][conn[t]] =
                                    IF ok THEN "closed" ELSE "closeFailed"]
            /\ Respond(t, SuccessResp)
       ELSE /\ Respond(t, ErrorResp(opErr[t]))
            /\ UNCHANGED <<relCalls, closeCalls, connState>>
    /\ UNCHANGED <<ManagerVars, ArgVars, EvalVars, tool, poolRef, conn, checkouts, probe, gcState, OpVars>>

\* finally { await this.connectionManager.releaseConnection(conn) }
Release(t) ==
    /\ pc[t] = "release"
    /\ relCalls' = [relCalls EXCEPT ![t] = @ + 1]
    /\ closeCalls' = [closeCalls EXCEPT ![t][conn[t]] = @ + 1]
    /\ \E ok \in BOOLEAN, msg \in {{}, {"ORA-01017"}} :
          /\ connState' = [connState EXCEPT ![t][conn[t]] =
                               IF ok THEN "closed" ELSE "closeFailed"]
          /\ Respond(t, afterRelease(opErr[t], ok, msg))
    /\ UNCHANGED <<ManagerVars, ArgVars, EvalVars, tool, poolRef, conn, checkouts, probe, gcState, OpVars>>

\* the task is free for the next request
Return(t) ==
    /\ pc[t] = "done"
    /\ pc' = [pc EXCEPT ![t] = "idle"]
    /\ tool' = [tool EXCEPT ![t] = "none"]
    /\ poolRef' = [poolRef EXCEPT ![t] = 0]
    /\ conn' = [conn EXCEPT ![t] = "none"]
    /\ connState' = [connState EXCEPT ![t] = [c \in Slots |-> "none"]]
    /\ closeCalls' = [closeCalls EXCEPT ![t] = [c \in Slots |-> 0]]
    /\ relCalls' = [relCalls EXCEPT ![t] = 0]
    /\ checkouts' = [checkouts EXCEPT ![t] = 0]
    /\ probe' = [probe EXCEPT ![t] = [c \in Slots |-> "none"]]
    /\ gcState' = [gcState EXCEPT ![t] = "none"]
    /\ log' = [log EXCEPT ![t] = <<>>]
    /\ caught' = [caught EXCEPT ![t] = NoCaught]
    /\ opErr' = [opErr EXCEPT ![t] = NoErr]
    /\ opState' = [opState EXCEPT ![t] = "none"]
    /\ resp' = [resp EXCEPT ![t] = NoResp]
    /\ argClass' = [argClass EXCEPT ![t] = NoArgClass]
    /\ UNCHANGED <<ManagerVars, EvalVars>>

(***************************************************************************)
(* The engine operations (executor functions).                             *)
(***************************************************************************)
\* caller-supplied table names of the model
TableNames == {"employees", "EMPLOYEES", "orders", "DROP"}

\* caller-supplied row limits and offsets of the model (args.limit, args.offset)
LimitInputs == {Undefined, Num(0), Num(-3), Num(5), Num(2000)}
OffsetInputs == {Undefined, Num(0), Num(50)}

\* caller-supplied data objects of insertRecord: whether it is a non-array object, and
\* per column the kind of its value ("plain", "marker": a string such as SYSDATE,
\* "expr": {$expr} of an allowed expression, "badExpr": {$expr} of any other text)
DataInputs ==
    { [obj |-> FALSE, cols |-> <<>>],
      [obj |-> TRUE, cols |-> <<>>],
      [obj |-> TRUE, cols |-> <<"plain">>],
      [obj |-> TRUE, cols |-> <<"plain", "marker", "expr">>],
      [obj |-> TRUE, cols |-> <<"plain", "badExpr">>] }

\* args.limit || 100
OrDefault(v, d) == IF v = Undefined \/ v[1] = 0 THEN Num(d) ELSE v

Stmt(kind, autoCommit, ok) == [stmt |-> kind, autoCommit |-> autoCommit, ok |-> ok]

\* conn.execute(...) settles: the statement is appended to the operation's log
Executed(t, kind, autoCommit, ok) ==
    log' = [log EXCEPT ![t] = Append(@, Stmt(kind, autoCommit, ok))]

\* the engine operation throws e: the handler's finally block runs next
Throw(t, e) ==
    /\ opErr' = [opErr EXCEPT ![t] = e]
    /\ opState' = [opState EXCEPT ![t] = "threw"]
    /\ pc' = [pc EXCEPT ![t] = "release"]

\* the engine operation returns its result: the handler's finally block runs next
ReturnResult(t) ==
    /\ opState' = [opState EXCEPT ![t] = "returned"]
    /\ pc' = [pc EXCEPT ![t] = "release"]
    /\ UNCHANGED opErr

\* the operation goes on to its first (next) statement
Goto(t, label) ==
    /\ opState' = [opState EXCEPT ![t] = "running"]
    /\ pc' = [pc EXCEPT ![t] = label]
    /\ UNCHANGED opErr

\* queryValidation of an operation that goes on without looking at the verdict
queryValidation_ignoresVerdict(sql) == NoErr

\* executeQuery's validation of its SQL, as a thrown error (NoErr when accepted)
queryValidation(sql) ==
    IF validateSql(sql).valid THEN NoErr ELSE OracleMapError(SQL_SYNTAX_ERROR, {})

\* queryTable up to the statement of the executeQuery it calls
tableDataValidation(wl, tableName, limit, offset) ==
    IF ~checkTableAccess(wl, tableName)
    THEN OracleMapError(ACCESS_DENIED, {})
    ELSE queryValidation(JsString(
             buildTableQuerySql(tableName, Num(enforceRowLimit(limit, 100)), offset)))

\* insertRecord up to its INSERT statement
insertValidation(wl, tableName, data) ==
    IF ~checkTableAccess(wl, tableName) THEN OracleMapError(ACCESS_DENIED, {})
    ELSE IF ~data.obj THEN OracleMapError(SQL_SYNTAX_ERROR, {})
    ELSE IF data.cols = <<>> THEN OracleMapError(SQL_SYNTAX_ERROR, {})
    ELSE IF \E i \in 1..Len(data.cols) : data.cols[i] = "badExpr"
    THEN OracleMapError(SQL_SYNTAX_ERROR, {})
    ELSE NoErr

\* executeDml's validation of its SQL
dmlValidation(sql) ==
    IF validateDmlSql(sql).valid THEN NoErr ELSE OracleMapError(SQL_SYNTAX_ERROR, {})

\* how the validator of an operation classes the SQL of a call
SqlClass(valid) == IF valid THEN "accepted" ELSE "rejected"

\* how the whitelist classes the table of a call
TableClass(wl, tableName) == IF checkTableAccess(wl, tableName) THEN "allowed" ELSE "denied"

\* executeQuery(conn, sql, { limit }) up to its conn.execute (the limit shapes only
\* the text of the statement: executeQuerySubmits)
BeginQuery(t, sql) ==
    /\ argClass' = [argClass EXCEPT ![t] = [sql |-> SqlClass(validateSql(sql).valid),
                                            table |-> "none"]]
    /\ IF queryValidation(sql) = NoErr
       THEN Goto(t, "query")
       ELSE Throw(t, queryValidation(sql))

\* executeFlashbackQuery(conn, sql, { asOfTimestamp, limit }) up to its conn.execute
\* (timestamp and limit shape only the text of the statement:
\* executeFlashbackQuerySubmits)
BeginFlashback(t, sql) ==
    /\ argClass' = [argClass EXCEPT ![t] = [sql |-> SqlClass(validateSql(sql).valid),
                                            table |-> "none"]]
    /\ IF queryValidation(sql) = NoErr
       THEN Goto(t, "query")
       ELSE Throw(t, queryValidation(sql))

\* queryTable(conn, table, { limit, offset }) up to the conn.execute of its executeQuery
BeginTableData(t, tableName, limit, offset) ==
    LET e == tableDataValidation(whitelist, tableName, limit, offset)
        sql == buildTableQuerySql(tableName, Num(enforceRowLimit(limit, 100)), offset)
    IN  /\ argClass' = [argClass EXCEPT ![t] =
                           [sql |-> IF checkTableAccess(whitelist, tableName)
                                    THEN SqlClass(validateSql(JsString(sql)).valid)
                                    ELSE "none",
                            table |-> TableClass(whitelist, tableName)]]
        /\ IF e = NoErr THEN Goto(t, "query") ELSE Throw(t, e)

\* getTableRowCount(conn, table) up to its conn.execute
BeginTableCount(t, tableName) ==
    /\ argClass' = [argClass EXCEPT ![t] = [sql |-> "none",
                                            table |-> TableClass(whitelist, tableName)]]
    /\ Goto(t, "count")

\* getExplainPlan(conn, sql, { format }) up to its first conn.execute
BeginExplain(t, sql) ==
    /\ argClass' = [argClass EXCEPT ![t] = [sql |-> SqlClass(validateSql(sql).valid),
                                            table |-> "none"]]
    /\ IF queryValidation(sql) = NoErr
       THEN Goto(t, "explain")
       ELSE Throw(t, queryValidation(sql))

\* executeDml(conn, sql) up to its first conn.execute
BeginDml(t, sql) ==
    /\ argClass' = [argClass EXCEPT ![t] = [sql |-> SqlClass(validateDmlSql(sql).valid),
                                            table |-> "none"]]
    /\ IF dmlValidation(sql) = NoErr
       THEN Goto(t, "dml")
       ELSE Throw(t, dmlValidation(sql))

\* insertRecord(conn, table, data) up to its conn.execute
BeginInsert(t, tableName, data) ==
    LET e == insertValidation(whitelist, tableName, data)
    IN  /\ argClass' = [argClass EXCEPT ![t] = [sql |-> "none",
                                                table |-> TableClass(whitelist, tableName)]]
        /\ IF e = NoErr THEN Goto(t, "insert") ELSE Throw(t, e)

\* the code of the handler's try block up to the first statement of the operation
BeginOp(t) ==
    /\ pc[t] = "begin"
    /\ \/ /\ tool[t] = "oracle_list_tables"
          /\ Goto(t, "list")
          /\ UNCHANGED ArgVars
       \/ /\ tool[t] = "oracle_table_count"
          /\ \E tbl \in TableNames : BeginTableCount(t, tbl)
       \/ /\ tool[t] = "oracle_query"
          /\ \E sql \in SqlInputs : BeginQuery(t, sql)
       \/ /\ tool[t] = "oracle_flashback_query"
          /\ \E sql \in SqlInputs : BeginFlashback(t, sql)
       \/ /\ tool[t] = "oracle_table_data"
          /\ \E tbl \in TableNames, lim \in LimitInputs, off \in OffsetInputs :
                BeginTableData(t, tbl, OrDefault(lim, 100), OrDefault(off, 0))
       \/ /\ tool[t] = "oracle_explain_plan"
          /\ \E sql \in SqlInputs : BeginExplain(t, sql)
       \/ /\ tool[t] = "oracle_execute_dml"
          /\ \E sql \in SqlInputs : BeginDml(t, sql)
       \/ /\ tool[t] = "oracle_insert_record"
          /\ \E tbl \in TableNames, data \in DataInputs : BeginInsert(t, tbl, data)
    /\ UNCHANGED <<ManagerVars, EvalVars, tool, ConnVars, log, caught, resp>>

\* handleListTables: the handler's own statement; a driver error leaves it as thrown
ListTablesStmt(t) ==
    /\ pc[t] = "list"
    /\ \/ /\ Executed(t, "LIST", "unset", TRUE)
          /\ ReturnResult(t)
       \/ /\ Executed(t, "LIST", "unset", FALSE)
          /\ \E msg \in DriverMsgs : Throw(t, NativeError(msg))
    /\ UNCHANGED <<ManagerVars, ArgVars, EvalVars, tool, ConnVars, caught, resp>>

\* what getTableRowCount throws when its conn.execute rejects with msg
countError(msg) == NativeError(msg)

\* getTableRowCount: SELECT COUNT(*) ..., with no catch block around it
CountStmt(t) ==
    /\ pc[t] = "count"
    /\ \/ /\ Executed(t, "COUNT", "unset", TRUE)
          /\ ReturnResult(t)
       \/ /\ Executed(t, "COUNT", "unset", FALSE)
          /\ \E msg \in DriverMsgs : Throw(t, countError(msg))
    /\ UNCHANGED <<ManagerVars, ArgVars, EvalVars, tool, ConnVars, caught, resp>>

\* the catch block of queryTable around executeQuery: e is what executeQuery threw
queryTableError(e) ==
    IF "ORA-00942" \in e.sigs THEN OracleMapError(TABLE_NOT_FOUND, {}) ELSE e

\* what the read operation of tool name throws when its conn.execute rejects with msg
readError(name, msg) ==
    IF name = "oracle_flashback_query" THEN flashbackError(msg)
    ELSE IF name = "oracle_table_data" THEN queryTableError(handleQueryError(msg))
    ELSE handleQueryError(msg)

\* executeQuery / executeFlashbackQuery: the paginated SELECT
QueryStmt(t) ==
    /\ pc[t] = "query"
    /\ \/ /\ Executed(t, "SELECT", "unset", TRUE)
          /\ ReturnResult(t)
       \/ /\ Executed(t, "SELECT", "unset", FALSE)
          /\ \E msg \in DriverMsgs : Throw(t, readError(tool[t], msg))
    /\ UNCHANGED <<ManagerVars, ArgVars, EvalVars, tool, ConnVars, caught, resp>>

\* getExplainPlan: EXPLAIN PLAN SET STATEMENT_ID = ... FOR <sql>
ExplainStmt(t) ==
    /\ pc[t] = "explain"
    /\ \/ /\ Executed(t, "EXPLAIN PLAN", "unset", TRUE)
          /\ Goto(t, "planSelect")
       \/ /\ Executed(t, "EXPLAIN PLAN", "unset", FALSE)
          /\ \E msg \in DriverMsgs : Throw(t, explainError(msg))
    /\ UNCHANGED <<ManagerVars, ArgVars, EvalVars, tool, ConnVars, caught, resp>>

\* getExplainPlan: SELECT * FROM TABLE(DBMS_XPLAN.DISPLAY(...))
PlanSelectStmt(t) ==
    /\ pc[t] = "planSelect"
    /\ \/ /\ Executed(t, "SELECT", "unset", TRUE)
          /\ Goto(t, "planDelete")
       \/ /\ Executed(t, "SELECT", "unset", FALSE)
          /\ \E msg \in DriverMsgs : Throw(t, explainError(msg))
    /\ UNCHANGED <<ManagerVars, ArgVars, EvalVars, tool, ConnVars, caught, resp>>

\* PlanDeleteStmt whose COMMIT is issued whatever the DELETE did
PlanDeleteStmt_commitsAnyway(t) ==
    /\ pc[t] = "planDelete"
    /\ \E ok \in BOOLEAN : Executed(t, "DELETE", "unset", ok)
    /\ Goto(t, "planCommit")
    /\ UNCHANGED <<ManagerVars, ArgVars, EvalVars, tool, ConnVars, caught, resp>>

\* getExplainPlan: DELETE FROM PLAN_TABLE ...; a failure of the clean-up is ignored
PlanDeleteStmt(t) ==
    /\ pc[t] = "planDelete"
    /\ \/ /\ Executed(t, "DELETE", "unset", TRUE)
          /\ Goto(t, "planCommit")
       \/ /\ Executed(t, "DELETE", "unset", FALSE)
          /\ ReturnResult(t)
    /\ UNCHANGED <<ManagerVars, ArgVars, EvalVars, tool, ConnVars, caught, resp>>

\* getExplainPlan: COMMIT of the clean-up; a failure is ignored
PlanCommitStmt(t) ==
    /\ pc[t] = "planCommit"
    /\ \E ok \in BOOLEAN : Executed(t, "COMMIT", "unset", ok)
    /\ ReturnResult(t)
    /\ UNCHANGED <<ManagerVars, ArgVars, EvalVars, tool, ConnVars, caught, resp>>

\* DmlStmt that leaves the driver to commit the statement by itself
DmlStmt_autoCommit(t) ==
    /\ pc[t] = "dml"
    /\ \/ /\ Executed(t, "DML", "true", TRUE)
          /\ Goto(t, "commit")
          /\ UNCHANGED caught
       \/ /\ Executed(t, "DML", "true", FALSE)
          /\ \E msg \in DriverMsgs : caught' = [caught EXCEPT ![t] = <<msg>>]
          /\ Goto(t, "rollback")
    /\ UNCHANGED <<ManagerVars, ArgVars, EvalVars, tool, ConnVars, resp>>

\* executeDml: conn.execute(sql, binds, { autoCommit: false })
DmlStmt(t) ==
    /\ pc[t] = "dml"
    /\ \/ /\ Executed(t, "DML", "false", TRUE)
          /\ Goto(t, "commit")
          /\ UNCHANGED caught
       \/ /\ Executed(t, "DML", "false", FALSE)
          /\ \E msg \in DriverMsgs : caught' = [caught EXCEPT ![t] = <<msg>>]
          /\ Goto(t, "rollback")
    /\ UNCHANGED <<ManagerVars, ArgVars, EvalVars, tool, ConnVars, resp>>

\* DmlCommit outside the try block: a failed COMMIT is thrown without a ROLLBACK
DmlCommit_noRollback(t) ==
    /\ pc[t] = "commit"
    /\ \/ /\ Executed(t, "COMMIT", "unset", TRUE)
          /\ ReturnResult(t)
          /\ UNCHANGED caught
       \/ /\ Executed(t, "COMMIT", "unset", FALSE)
          /\ \E msg \in DriverMsgs :
                /\ caught' = [caught EXCEPT ![t] = <<msg>>]
                /\ Throw(t, handleDmlError(msg))
    /\ UNCHANGED <<ManagerVars, ArgVars, EvalVars, tool, ConnVars, resp>>

\* executeDml: conn.execute('COMMIT')
DmlCommit(t) ==
    /\ pc[t] = "commit"
    /\ \/ /\ Executed(t, "COMMIT", "unset", TRUE)
          /\ ReturnResult(t)
          /\ UNCHANGED caught
       \/ /\ Executed(t, "COMMIT", "unset", FALSE)
          /\ \E msg \in DriverMsgs : caught' = [caught EXCEPT ![t] = <<msg>>]
          /\ Goto(t, "rollback")
    /\ UNCHANGED <<ManagerVars, ArgVars, EvalVars, tool, ConnVars, resp>>

\* dmlThrown without the inner try/catch: a failed ROLLBACK replaces the caught error
dmlThrown_rollbackMasks(caughtMsg, rbOk, rbMsg) ==
    IF rbOk THEN handleDmlError(caughtMsg) ELSE handleDmlError(rbMsg)

\* the error executeDml throws once the ROLLBACK of its catch block has settled:
\* a failure of the ROLLBACK (with message rbMsg) is swallowed
dmlThrown(caughtMsg, rbOk, rbMsg) == handleDmlError(caughtMsg)

\* executeDml: conn.execute('ROLLBACK') in the catch block, then throw handleDmlError(error)
DmlRollback(t) ==
    /\ pc[t] = "rollback"
    /\ \E ok \in BOOLEAN, rbMsg \in {{}, {"ORA-00942"}} :
          /\ Executed(t, "ROLLBACK", "unset", ok)
          /\ Throw(t, dmlThrown(caught[t][1], ok, rbMsg))
    /\ UNCHANGED <<ManagerVars, ArgVars, EvalVars, tool, ConnVars, caught, resp>>

\* the options insertRecord passes with its INSERT
insertAutoCommit == "true"

\* insertRecord: conn.execute(sql, bindValues, { autoCommit: true })
InsertStmt(t) ==
    /\ pc[t] = "insert"
    /\ \/ /\ Executed(t, "INSERT", insertAutoCommit, TRUE)
          /\ ReturnResult(t)
       \/ /\ Executed(t, "INSERT", insertAutoCommit, FALSE)
          /\ \E msg \in DriverMsgs : Throw(t, handleDmlError(msg))
    /\ UNCHANGED <<ManagerVars, ArgVars, EvalVars, tool, ConnVars, caught, resp>>

(***************************************************************************)
(* Specification.                                                          *)
(***************************************************************************)
\* CallUnknown whose throw is outside the dispatcher's try block: the call ends with
\* no response
CallUnknown_escapes(t) ==
    /\ t \in DbTasks
    /\ pc[t] = "idle"
    /\ tool' = [tool EXCEPT ![t] = "unknown"]
    /\ pc' = [pc EXCEPT ![t] = "done"]
    /\ UNCHANGED <<ManagerVars, ArgVars, EvalVars, ConnVars, OpVars, resp>>

\* the default branch of the dispatcher: an unknown tool name
CallUnknown(t) ==
    /\ t \in DbTasks
    /\ pc[t] = "idle"
    /\ tool' = [tool EXCEPT ![t] = "unknown"]
    /\ Respond(t, ErrorResp(PlainError))
    /\ UNCHANGED <<ManagerVars, ArgVars, EvalVars, ConnVars, OpVars>>

Next ==
    \E t \in Tasks :
        \/ CallConnect(t)
        \/ CreatePoolReturn(t)
        \/ ConnectFinish(t)
        \/ CallDisconnect(t)
        \/ ClosePoolReturn(t)
        \/ DisconnectFinish(t)
        \/ \E name \in DbTools : CallDb(t, name)
        \/ CallUnknown(t)
        \/ Checkout(t)
        \/ Ping(t)
        \/ CloseStale(t)
        \/ RetryCheckout(t)
        \/ BeginOp(t)
        \/ ListTablesStmt(t)
        \/ CountStmt(t)
        \/ QueryStmt(t)
        \/ ExplainStmt(t)
        \/ PlanSelectStmt(t)
        \/ PlanDeleteStmt(t)
        \/ PlanCommitStmt(t)
        \/ DmlStmt(t)
        \/ DmlCommit(t)
        \/ DmlRollback(t)
        \/ InsertStmt(t)
        \/ Release(t)
        \/ Return(t)

Spec == Init /\ [][Next]_vars

TypeOK ==
    /\ pool \in 0..MaxPools
    /\ isConnected \in BOOLEAN
    /\ \A t \in Tasks : conn[t] \in {"none"} \cup Slots

(***************************************************************************)
(* Result mapper. A string is a sequence of segments [kind, n]: n          *)
(* characters of ordinary text ("body"), the first n characters of the     *)
(* truncation marker ("mark"), the base64 text of the first n bytes of a   *)
(* buffer ("base64"), or an ISO 8601 date of n characters ("iso").         *)
(***************************************************************************)
Seg(kind, n) == [kind |-> kind, n |-> n]

\* the length of '... [已截断]'
MarkerLength == 9

LOB_CONFIG ==
    [CLOB_MAX_LENGTH |-> 4000, BLOB_MAX_LENGTH |-> 1024,
     TRUNCATE_SUFFIX |-> <<Seg("mark", MarkerLength)>>]

\* the values a driver hands over in a cell
JsNull == [t |-> "null"]
JsUndefined == [t |-> "undefined"]
Str(segs) == [t |-> "string", segs |-> segs]
Buf(n) == [t |-> "buffer", n |-> n]
Number == [t |-> "number"]
DateOf(valid) == [t |-> "date", valid |-> valid]

\* str.length
RECURSIVE length(_)
length(str) == IF str = <<>> THEN 0 ELSE Head(str).n + length(Tail(str))

\* str.substring(0, m)
RECURSIVE substring(_, _)
substring(str, m) ==
    IF str = <<>> \/ m <= 0 THEN <<>>
    ELSE IF Head(str).n <= m THEN <<Head(str)>> \o substring(Tail(str), m - Head(str).n)
    ELSE <<Seg(Head(str).kind, m)>>

\* buffer.toString('base64')
base64(n) == IF n = 0 THEN <<>> ELSE <<Seg("base64", n)>>

\* truncateString that cuts without appending the marker
truncateString_noMarker(str, maxLength) ==
    IF length(str) <= maxLength THEN str ELSE substring(str, maxLength)

truncateString(str, maxLength) ==
    IF length(str) <= maxLength THEN str
    ELSE substring(str, maxLength) \o LOB_CONFIG.TRUNCATE_SUFFIX

\* dateToIso on a Date: toISOString, or null for an invalid date
dateToIso(date) == IF date.valid THEN Str(<<Seg("iso", 24)>>) ELSE JsNull

\* (oracleType || '').toUpperCase(), oracleType being <<>> (not given) or <<name>>
UpperType(oracleType) == IF oracleType = <<>> THEN "" ELSE toUpperCase(oracleType[1])

\* upperType.startsWith('DATE') || upperType.startsWith('TIMESTAMP')
IsDateType(upperType) == upperType \in {"DATE", "TIMESTAMP", "TIMESTAMP(6)"}

mapValue(value, oracleType) ==
    LET upperType == UpperType(oracleType)
    IN  IF value.t \in {"null", "undefined"} THEN JsNull
        ELSE IF IsDateType(upperType) /\ value.t = "date" THEN dateToIso(value)
        ELSE IF upperType \in {"CLOB", "NCLOB", "LONG"} /\ value.t = "string"
        THEN Str(truncateString(value.segs, LOB_CONFIG.CLOB_MAX_LENGTH))
        ELSE IF value.t = "buffer"
        THEN IF value.n > LOB_CONFIG.BLOB_MAX_LENGTH
             THEN Str(base64(LOB_CONFIG.BLOB_MAX_LENGTH) \o LOB_CONFIG.TRUNCATE_SUFFIX)
             ELSE Str(base64(value.n))
        ELSE IF /\ upperType \in {"BLOB", "RAW", "LONG RAW"}
                /\ value.t = "string"
                /\ length(value.segs) > LOB_CONFIG.BLOB_MAX_LENGTH * 2
        THEN Str(substring(value.segs, LOB_CONFIG.BLOB_MAX_LENGTH * 2)
                     \o LOB_CONFIG.TRUNCATE_SUFFIX)
        ELSE IF value.t = "string" /\ length(value.segs) > LOB_CONFIG.CLOB_MAX_LENGTH
        THEN Str(truncateString(value.segs, LOB_CONFIG.CLOB_MAX_LENGTH))
        ELSE value

\* a column descriptor: an object { name, oracleType, dbType } whose fields are <<>>
\* (not given) or <<text>>, or a plain string (name holds it)
Column(name, oracleType, dbType) ==
    [kind |-> "object", name |-> <<name>>, oracleType |-> oracleType, dbType |-> dbType]
StringColumn(name) == [kind |-> "string", name |-> <<name>>, oracleType |-> <<>>, dbType |-> <<>>]

\* a || b on optional strings: '' and undefined are falsy
OrElse(a, b) == IF a # <<>> /\ a[1] # "" THEN a ELSE b

\* column.name || column
ColumnName(column) == column.name[1]

\* column.oracleType || column.dbType || ''
ColumnType(column) == OrElse(OrElse(column.oracleType, column.dbType), <<"">>)

\* a driver row: an array of cells, or an object as the list of its [k, v] properties
ArrayRow(cells) == [shape |-> "array", cells |-> cells]
ObjectRow(props) == [shape |-> "object", cells |-> props]

\* row[columnName] of an object row, row[i] of an array row: undefined when the row has
\* no such property or index
CellOf(row, columnName, i) ==
    IF row.shape = "object"
    THEN IF \E j \in 1..Len(row.cells) : row.cells[j].k = columnName
         THEN row.cells[CHOOSE j \in 1..Len(row.cells) : row.cells[j].k = columnName].v
         ELSE JsUndefined
    ELSE IF i <= Len(row.cells) THEN row.cells[i] ELSE JsUndefined

\* result[k] = v that leaves out a key whose value is null
setKey_skipsNull(result, k, v) ==
    IF v = JsNull THEN result
    ELSE IF \E j \in 1..Len(result) : result[j].k = k
    THEN [j \in 1..Len(result) |-> IF result[j].k = k THEN [k |-> k, v |-> v] ELSE result[j]]
    ELSE Append(result, [k |-> k, v |-> v])

\* result[k] = v on an object kept as the list of its [k, v] properties
setKey(result, k, v) ==
    IF \E j \in 1..Len(result) : result[j].k = k
    THEN [j \in 1..Len(result) |-> IF result[j].k = k THEN [k |-> k, v |-> v] ELSE result[j]]
    ELSE Append(result, [k |-> k, v |-> v])

\* the loop of mapRow over the first n columns (both row shapes run the same body on
\* their cell)
RECURSIVE mapRowUpTo(_, _, _)
mapRowUpTo(row, columns, n) ==
    IF n = 0 THEN <<>>
    ELSE LET column == columns[n]
             columnName == ColumnName(column)
             oracleType == ColumnType(column)
             value == CellOf(row, columnName, n)
         IN  setKey(mapRowUpTo(row, columns, n - 1), columnName, mapValue(value, oracleType))

mapRow(row, columns) == mapRowUpTo(row, columns, Len(columns))

(***************************************************************************)
(* The exported functions applied to a caller's arguments: the validators,  *)
(* and the read operations up to their conn.execute (what they pass to the  *)
(* driver is a function of their arguments).                                *)
(***************************************************************************)
\* statements a caller passes: an optional leading blank, the head of a statement, a
\* delimiter, a word, what follows the word, and an optional WHERE clause
SqlLeads == { <<>>, <<"\n", " ">> }

SqlHeads ==
    { <<"SELECT", " ", "*", " ", "FROM", " ", "T">>,
      <<"select", " ", "ID", " ", "from", " ", "T">>,
      <<"selected", " ", "FROM", " ", "T">>,
      <<"WITH", " ", "Q", " ", "AS", " ", "(", "SELECT", " ", "1", " ", "FROM", " ", "T", ")">>,
      <<"UPDATE", " ", "T", " ", "SET", " ", "X", "=", "1">>,
      <<"update", " ", "T", " ", "SET", " ", "X", "=", "1">>,
      <<"UPDATES", " ", "T", " ", "SET", " ", "X", "=", "1">>,
      <<"INSERT", " ", "INTO", " ", "T", " ", "VALUES", "(", "1", ")">>,
      <<"DELETE", " ", "FROM", " ", "T">> }

SqlDelims == {" ", ";", "(", ")", ",", "="}

SqlWords ==
    { "DROP", "Drop", "DELETE", "delete", "UPDATE", "INSERT", "TRUNCATE", "ALTER", "create",
      "GRANT", "revoke", "DELETED_FLAG", "deleted_flag", "CREATED_AT", "WHERE", "where", "ID" }

SqlAfter == { <<>>, <<" ", "Y">>, <<";">>, <<"(", "Y", ")">>, <<")">> }

SqlTails == { <<>>, <<" ", "WHERE", " ", "ID", "=", "1">>, <<" ", "WHERE_X">> }

EvalSqlInputs ==
    { NotAString, JsString(<<>>), JsString(<<" ">>), JsString(<<"SELECT">>),
      JsString(<<"DROP">>) }
    \cup { JsString(lead \o head \o <<d, w>> \o after \o tail) :
               lead \in SqlLeads, head \in SqlHeads, d \in SqlDelims, w \in SqlWords,
               after \in SqlAfter, tail \in SqlTails }

\* the limits and offsets a caller passes to a read operation
EvalLimits == {Undefined, Num(0), Num(-3), Num(1), Num(5), Num(1000), Num(1001), Num(2000)}
EvalOffsets == {Undefined, Num(0), Num(50)}

\* the SELECT statements a caller passes to a read operation
EvalSelects ==
    { <<"SELECT", " ", "*", " ", "FROM", " ", "T">>,
      <<" ", "select", " ", "*", " ", "from", " ", "T", ";">>,
      <<"SELECT", " ", "*", " ", "FROM", " ", "(", "SELECT", " ", "1", " ", "FROM", " ", "T", ")">>,
      <<"SELECT", " ", "*", " ", "FROM", " ", "T", " ", "FETCH", " ", "NEXT", " ", "5000", " ",
        "ROWS", " ", "ONLY">>,
      <<"UPDATE", " ", "T", " ", "SET", " ", "X", "=", "1">> }

\* the arguments of one call of an exported function
SqlArg(sql) == [kind |-> "sql", sql |-> sql]
QueryArg(sql, limit, offset) ==
    [kind |-> "query", sql |-> sql, limit |-> limit, offset |-> offset]
TableArg(tableName, limit, offset) ==
    [kind |-> "table", table |-> tableName, limit |-> limit, offset |-> offset]
FlashbackArg(sql, asOfTimestamp, limit, offset) ==
    [kind |-> "flashback", sql |-> sql, asOfTimestamp |-> asOfTimestamp, limit |-> limit,
     offset |-> offset]

FlashArg(baseSql, asOfTimestamp) ==
    [kind |-> "flash", sql |-> baseSql, asOfTimestamp |-> asOfTimestamp]
CodeArg(code) == [kind |-> "code", code |-> code]
RowArg(row, columns) == [kind |-> "row", row |-> row, columns |-> columns]
ValueArg(value, oracleType) ==
    [kind |-> "value", value |-> value, oracleType |-> oracleType]
AccessArg(env, tableName) == [kind |-> "access", env |-> env, table |-> tableName]
PageArg(baseSql, limit, offset) ==
    [kind |-> "page", sql |-> baseSql, limit |-> limit, offset |-> offset]
LimitArg(limit, defaultLimit) ==
    [kind |-> "limit", limit |-> limit, defaultLimit |-> defaultLimit]

\* the default limits a caller passes as second argument: none (the callers of the
\* repository), or a positive number
EvalDefaults == {Undefined, Num(50), Num(2000)}

\* settings of ORACLE_TABLE_WHITELIST in the process environment
EvalWhitelistEnvs ==
    { Undefined, <<>>, <<" ">>, <<",">>,
      <<"EMPLOYEES">>,
      <<"employees">>,
      <<"EMPLOYEES", ",", " ", "Orders", " ">>,
      <<" ", "orders", ",", ",", "EMPLOYEES", ",", "ORDERS">> }

\* table names a caller passes to checkTableAccess
EvalTableNames == {"employees", "EMPLOYEES", "Employees", "orders", "DEPT"}

\* a text of body ordinary characters followed by the first mark characters of the
\* truncation marker
Text(body, mark) ==
    (IF body > 0 THEN <<Seg("body", body)>> ELSE <<>>)
        \o (IF mark > 0 THEN <<Seg("mark", mark)>> ELSE <<>>)

\* cell values: strings around the thresholds 2048 and 4000, some of them ending with
\* the text of the truncation marker, buffers around 1024 bytes, and other values
EvalCellValues ==
    { JsNull, JsUndefined, Number, DateOf(TRUE), DateOf(FALSE) }
    \cup { Str(Text(b, 0)) : b \in {0, 10, 2048, 2049, 4000, 4001, 5000} }
    \cup { Str(Text(b, MarkerLength)) : b \in {10, 2040, 3991, 3995, 5000} }
    \cup { Buf(n) : n \in {0, 1, 1024, 1025, 3000} }

\* column types: not given, or a name
EvalColumnTypes ==
    { <<>> } \cup { <<n>> : n \in {"", "VARCHAR2", "NUMBER", "CLOB", "clob", "NCLOB", "LONG",
                                     "BLOB", "RAW", "LONG RAW", "DATE", "TIMESTAMP(6)"} }

\* the column lists of a result: descriptors as extractColumnInfo builds them, with a
\* type under dbType only, and plain names; the driver names the columns uniquely
EvalColumnLists ==
    { <<Column("NAME", <<"VARCHAR2">>, <<>>), Column("AGE", <<"NUMBER">>, <<>>),
        Column("EMAIL", <<"VARCHAR2">>, <<>>)>>,
      <<Column("DOC", <<"">>, <<"CLOB">>), StringColumn("NOTE")>>,
      <<Column("CREATED_AT", <<"DATE">>, <<>>)>> }

\* the cells of a row
EvalRowCells ==
    { JsNull, JsUndefined, Number, Str(<<>>), Str(Text(5000, 0)), DateOf(FALSE) }

\* the sequences over S of length at most n
SeqUpTo(S, n) == UNION { [1..k -> S] : k \in 0..n }

\* the rows of a column list: arrays of up to as many cells as columns, and objects
\* with a property for some of the columns
EvalRows(columns) ==
    { ArrayRow(cells) : cells \in SeqUpTo(EvalRowCells, Len(columns)) }
    \cup { ObjectRow(props) :
               props \in { p \in SeqUpTo([k : {ColumnName(columns[i]) : i \in 1..Len(columns)},
                                          v : EvalRowCells], Len(columns)) :
                               \A i, j \in 1..Len(p) : i < j =>
                                   \E a, b \in 1..Len(columns) :
                                       /\ a < b
                                       /\ p[i].k = ColumnName(columns[a])
                                       /\ p[j].k = ColumnName(columns[b]) } }

\* the error codes of ErrorCode, and numbers at the edges of their ranges
EvalErrorCodes ==
    { CONNECTION_FAILED, AUTH_FAILED, TIMEOUT, CONFIG_NOT_FOUND, CONFIG_PARSE_ERROR,
      MISSING_REQUIRED_PARAM, TABLE_NOT_FOUND, SQL_SYNTAX_ERROR, QUERY_EXECUTION_ERROR,
      ACCESS_DENIED, FILE_EXISTS, WRITE_PERMISSION_DENIED, UNKNOWN }
    \cup { -1, 0, 1, 99, 100, 199, 200, 299, 300, 399, 400, 499, 500, 1101 }

\* ISO 8601 timestamps a caller passes: with and without fractional seconds, with the
\* suffix Z, with a numeric offset, and with no suffix
EvalTimestamps ==
    LET dateTime == <<"2024", "-", "01", "-", "15", "T", "14", ":", "30", ":", "00">>
    IN  { dateTime \o frac \o zone :
              frac \in { <<>>, <<".", "000">> },
              zone \in { <<>>, <<"Z">>, <<"+", "08", ":", "00">>, <<"-", "05", ":", "00">> } }

EvalInputs ==
    { SqlArg(sql) : sql \in EvalSqlInputs }
    \cup { FlashArg(JsString(sql), ts) : sql \in EvalSelects, ts \in EvalTimestamps }
    \cup { CodeArg(c) : c \in EvalErrorCodes }
    \cup UNION { { RowArg(row, columns) : row \in EvalRows(columns) } :
                    columns \in EvalColumnLists }
    \cup { ValueArg(v, ty) : v \in EvalCellValues, ty \in EvalColumnTypes }
    \cup { AccessArg(env, tbl) : env \in EvalWhitelistEnvs, tbl \in EvalTableNames }
    \cup { LimitArg(lim, def) : lim \in EvalLimits, def \in EvalDefaults }
    \cup { PageArg(JsString(sql), lim, off) :
               sql \in EvalSelects, lim \in EvalLimits, off \in EvalOffsets \cup {Num(-5)} }
    \cup { QueryArg(JsString(sql), lim, off) :
               sql \in EvalSelects, lim \in EvalLimits, off \in EvalOffsets }
    \cup { TableArg(tbl, lim, off) :
               tbl \in TableNames, lim \in EvalLimits, off \in EvalOffsets }
    \cup { FlashbackArg(JsString(sql), ts, lim, off) :
               sql \in EvalSelects, ts \in TimestampInputs, lim \in EvalLimits,
               off \in EvalOffsets }

\* a call of an exported function with arguments a caller may pass
EvalInit ==
    /\ InitServer
    /\ fn = "none"
    /\ fnArg \in EvalInputs
    /\ fnRes = NoRes

\* the verdict a validator returns
Verdict(v) == [kind |-> "verdict", verdict |-> v]

\* the error an operation throws instead of calling the driver
Threw(e) == [kind |-> "threw", err |-> e]

\* the value a function returns
Value(v) == [kind |-> "value", value |-> v]

\* the function name returns res
Returns(name, res) ==
    /\ fn = "none"
    /\ fn' = name
    /\ fnRes' = res
    /\ UNCHANGED <<fnArg, ManagerVars, pc, tool, ConnVars, OpVars, resp, ArgVars>>

ApplyValidateSql ==
    /\ fnArg.kind = "sql"
    /\ Returns("validateSql", Verdict(validateSql(fnArg.sql)))

ApplyValidateDmlSql ==
    /\ fnArg.kind = "sql"
    /\ Returns("validateDmlSql", Verdict(validateDmlSql(fnArg.sql)))

\* the parameter default of enforceRowLimit(requestedLimit, defaultLimit = 100)
DefaultLimitParam(defaultLimit) ==
    IF defaultLimit = Undefined THEN 100 ELSE defaultLimit[1]

ApplyEnforceRowLimit ==
    /\ fnArg.kind = "limit"
    /\ Returns("enforceRowLimit",
               Value(enforceRowLimit(fnArg.limit, DefaultLimitParam(fnArg.defaultLimit))))

ApplyCheckTableAccess ==
    /\ fnArg.kind = "access"
    /\ Returns("checkTableAccess", Value(checkTableAccessOf(fnArg.env, fnArg.table)))

ApplyMapValue ==
    /\ fnArg.kind = "value"
    /\ Returns("mapValue", Value(mapValue(fnArg.value, fnArg.oracleType)))

ApplyMapRow ==
    /\ fnArg.kind = "row"
    /\ Returns("mapRow", Value(mapRow(fnArg.row, fnArg.columns)))

ApplyGetExitCode ==
    /\ fnArg.kind = "code"
    /\ Returns("getExitCode", Value(getExitCode(fnArg.code)))

\* new OracleMapError(code)
NewOracleMapError ==
    /\ fnArg.kind = "code"
    /\ Returns("OracleMapError", Value(OracleMapError(fnArg.code, {})))

ApplyBuildFlashbackSql ==
    /\ fnArg.kind = "flash"
    /\ Returns("buildFlashbackSql",
               Value(buildFlashbackSql(fnArg.sql.lex, fnArg.asOfTimestamp)))

ApplyBuildPaginatedSql ==
    /\ fnArg.kind = "page"
    /\ Returns("buildPaginatedSql",
               Value(buildPaginatedSql(fnArg.sql.lex, fnArg.limit, fnArg.offset)))

\* executeQuery(conn, sql, { limit, offset }) up to its conn.execute
CallExecuteQuery ==
    /\ fnArg.kind = "query"
    /\ Returns("executeQuery",
               IF queryValidation(fnArg.sql) # NoErr
               THEN Threw(queryValidation(fnArg.sql))
               ELSE executeQuerySubmits(fnArg.sql.lex, fnArg.limit, fnArg.offset))

\* queryTable(conn, tableName, { limit, offset }) up to the conn.execute of its
\* executeQuery
CallQueryTable ==
    /\ fnArg.kind = "table"
    /\ Returns("queryTable",
               LET e == tableDataValidation(whitelist, fnArg.table, fnArg.limit, fnArg.offset)
               IN  IF e # NoErr THEN Threw(e)
                   ELSE queryTableSubmits(fnArg.table, fnArg.limit, fnArg.offset))

\* executeFlashbackQuery(conn, sql, { asOfTimestamp, limit, offset }) up to its
\* conn.execute
CallExecuteFlashbackQuery ==
    /\ fnArg.kind = "flashback"
    /\ Returns("executeFlashbackQuery",
               IF queryValidation(fnArg.sql) # NoErr
               THEN Threw(queryValidation(fnArg.sql))
               ELSE executeFlashbackQuerySubmits(fnArg.sql.lex, fnArg.asOfTimestamp,
                                                 fnArg.limit, fnArg.offset))

EvalNext ==
    \/ ApplyValidateSql
    \/ ApplyValidateDmlSql
    \/ ApplyEnforceRowLimit
    \/ ApplyCheckTableAccess
    \/ ApplyMapValue
    \/ ApplyMapRow
    \/ ApplyGetExitCode
    \/ NewOracleMapError
    \/ ApplyBuildFlashbackSql
    \/ ApplyBuildPaginatedSql
    \/ CallExecuteQuery
    \/ CallQueryTable
    \/ CallExecuteFlashbackQuery

EvalSpec == EvalInit /\ [][EvalNext]_vars

(***************************************************************************)
(* Properties.                                                             *)
(***************************************************************************)
\* the tool call of task t has produced its response
Responded(t) == resp[t].kind = "response"

\* the connection-class error kinds
ConnectionClass == {CONNECTION_FAILED, AUTH_FAILED, TIMEOUT}

\* C1: a handler that obtained a connection from getConnection() has invoked
\* releaseConnection on it exactly once (hence closed it once) when its response is
\* produced, whether the operation returned, threw a classified error or threw a raw
\* driver error, and never more than once before; and once a call has completed none of
\* the connections it checked out is left without a close() having been made on it.
C1_ReleasedExactlyOnce ==
    \A t \in Tasks :
        /\ relCalls[t] <= 1
        /\ \A c \in Slots : closeCalls[t][c] <= 1
        /\ (Responded(t) /\ conn[t] # "none") =>
              /\ relCalls[t] = 1
              /\ closeCalls[t][conn[t]] = 1
        /\ (Responded(t) /\ conn[t] = "none") => relCalls[t] = 0
        /\ Responded(t) => \A c \in Slots : connState[t][c] # "out"

\* C1 witness: a raw driver error was thrown on a connection got by the retry checkout,
\* and the response was produced after exactly one release
C1_Witness ==
    \E t \in Tasks :
        /\ Responded(t)
        /\ conn[t] = "c2"
        /\ opErr[t].cls = "native"
        /\ relCalls[t] = 1
        /\ connState[t]["c2"] = "closed"

\* C2: one getConnection() makes at most two pool checkouts; the second is made only
\* after the first succeeded, its probe failed and a close of the stale connection was
\* attempted (whatever that close did); and when the retry checkout fails the call has
\* thrown a classified connection-class error.
C2_AtMostOneRetry ==
    \A t \in Tasks :
        /\ checkouts[t] <= 2
        /\ checkouts[t] = 2 =>
              /\ connState[t]["c1"] \in {"closed", "closeFailed"}
              /\ probe[t]["c1"] = "failed"
              /\ closeCalls[t]["c1"] = 1
        /\ pc[t] = "retry" => closeCalls[t]["c1"] = 1
        /\ (checkouts[t] = 2 /\ gcState[t] = "threw") =>
              /\ Responded(t)
              /\ resp[t].isError
              /\ resp[t].err.cls = "OracleMapError"
              /\ resp[t].err.code \in ConnectionClass
              /\ connState[t]["c2"] = "none"

\* C2 witness: the close of the stale connection failed, the retry checkout was made
\* and failed
C2_Witness ==
    \E t \in Tasks :
        /\ checkouts[t] = 2
        /\ connState[t]["c1"] = "closeFailed"
        /\ gcState[t] = "threw"
        /\ resp[t].err.code = TIMEOUT

\* the log of an executeDml: statement kinds with their outcome
IsStmt(e, kind) == e.stmt = kind

\* C3: in executeDml the DML statement is submitted first with auto-commit disabled;
\* COMMIT follows iff the DML statement succeeded; ROLLBACK follows iff the DML
\* statement or the COMMIT raised, never after a successful COMMIT; and executeDml
\* returns iff the COMMIT succeeded.
C3_DmlStatementOrder ==
    \A t \in Tasks :
        tool[t] = "oracle_execute_dml" =>
            LET L == log[t]
                finished == opState[t] \in {"returned", "threw"} /\ Len(L) >= 1
            IN  /\ Len(L) <= 3
                /\ Len(L) >= 1 => IsStmt(L[1], "DML") /\ L[1].autoCommit = "false"
                /\ Len(L) >= 2 =>
                      IF L[1].ok THEN IsStmt(L[2], "COMMIT") ELSE IsStmt(L[2], "ROLLBACK")
                /\ Len(L) = 3 =>
                      /\ IsStmt(L[2], "COMMIT")
                      /\ ~L[2].ok
                      /\ IsStmt(L[3], "ROLLBACK")
                /\ finished =>
                      /\ Len(L) >= 2
                      /\ (IsStmt(L[2], "COMMIT") /\ ~L[2].ok) => Len(L) = 3
                      /\ opState[t] = "returned" <=> (IsStmt(L[2], "COMMIT") /\ L[2].ok)

\* C3 witness: the DML statement succeeded, the COMMIT raised, the ROLLBACK was issued
\* and executeDml threw
C3_Witness ==
    \E t \in Tasks :
        /\ tool[t] = "oracle_execute_dml"
        /\ opState[t] = "threw"
        /\ Len(log[t]) = 3
        /\ log[t][1].ok
        /\ IsStmt(log[t][3], "ROLLBACK")

WriteTools == {"oracle_execute_dml", "oracle_insert_record"}

HasStmt(L, kind) == \E i \in 1..Len(L) : IsStmt(L[i], kind)

\* C4 as stated: both write paths (executeDml and insertRecord) submit their statement
\* with auto-commit disabled, commit explicitly on success and roll back explicitly
\* when the statement raised.
C4_Original ==
    \A t \in Tasks :
        tool[t] \in WriteTools =>
            LET L == log[t]
            IN  /\ \A i \in 1..Len(L) :
                      L[i].stmt \in {"DML", "INSERT"} => L[i].autoCommit = "false"
                /\ opState[t] = "returned" =>
                      \E i \in 1..Len(L) : IsStmt(L[i], "COMMIT") /\ L[i].ok
                /\ (opState[t] = "threw" /\ Len(L) >= 1 /\ ~L[1].ok) => HasStmt(L, "ROLLBACK")

\* C4 amended: executeDml submits its statement with auto-commit disabled, commits
\* explicitly when it succeeded and rolls back explicitly when it raised; insertRecord
\* submits its single INSERT with auto-commit enabled and issues neither COMMIT nor
\* ROLLBACK, whether the INSERT succeeded or raised.
C4_WritePaths ==
    \A t \in Tasks :
        LET L == log[t]
        IN  /\ tool[t] = "oracle_execute_dml" =>
                  /\ \A i \in 1..Len(L) : IsStmt(L[i], "DML") => L[i].autoCommit = "false"
                  /\ opState[t] = "returned" =>
                        \E i \in 1..Len(L) : IsStmt(L[i], "COMMIT") /\ L[i].ok
                  /\ (opState[t] = "threw" /\ Len(L) >= 1 /\ ~L[1].ok) =>
                        HasStmt(L, "ROLLBACK")
            /\ tool[t] = "oracle_insert_record" =>
                  /\ Len(L) <= 1
                  /\ \A i \in 1..Len(L) : IsStmt(L[i], "INSERT") /\ L[i].autoCommit = "true"
                  /\ opState[t] = "returned" => Len(L) = 1 /\ L[1].ok

\* C4 witness: the INSERT of insertRecord raised and insertRecord threw with no
\* ROLLBACK issued
C4_Witness ==
    \E t \in Tasks :
        /\ tool[t] = "oracle_insert_record"
        /\ opState[t] = "threw"
        /\ log[t] = <<Stmt("INSERT", "true", FALSE)>>
        /\ Responded(t)

\* the tools whose handler runs an exported engine operation on the connection
EngineTools == DbTools \ {"oracle_list_tables"}

\* C5 as stated: whatever a driver call inside an exported engine operation raises, the
\* error that leaves the operation is a classified OracleMapError, never the raw driver
\* error.
C5_Original ==
    \A t \in Tasks :
        (tool[t] \in EngineTools /\ opState[t] = "threw") => opErr[t].cls = "OracleMapError"

\* C6: every failure of createPool() and of getConnection() (native error of any
\* message, failed retry checkout, no pool active) surfaces as an OracleMapError of the
\* connection class (101, 102 or 103, exit code 1).
C6_ConnectionClassErrors ==
    \A t \in Tasks :
        ((tool[t] = "oracle_connect" /\ Responded(t) /\ resp[t].isError)
            \/ gcState[t] = "threw") =>
            /\ Responded(t)
            /\ resp[t].isError
            /\ resp[t].err.cls = "OracleMapError"
            /\ resp[t].err.code \in ConnectionClass
            /\ resp[t].err.exitCode = 1

\* C6 witness: a pool checkout timed out in the queue and getConnection() threw
\* CONNECTION_FAILED
C6_Witness ==
    \E t \in Tasks :
        /\ gcState[t] = "threw"
        /\ checkouts[t] = 1
        /\ resp[t].err = OracleMapError(CONNECTION_FAILED, {"NJS-040"})

\* C7 as stated: when close() resolves on a manager that held a pool, whatever the
\* driver's pool close did, the manager holds no pool.
C7_Original ==
    [][\A t \in Tasks :
          (pc[t] = "closePool" /\ pc'[t] = "disconnecting") => pool' = 0]_vars

\* C8: a createPool that fails changes neither the manager's pool nor the connected
\* flag; while the flag is false every database tool call is refused with an error and
\* makes no pool checkout; and the flag turns true only in a handleConnect whose
\* createPool has succeeded.
C8_FailedConnectStaysUninitialized ==
    [][\A t \in Tasks :
          /\ (pc[t] = "createPool" /\ pc'[t] = "done") =>
                /\ pool' = pool
                /\ isConnected' = isConnected
                /\ poolState' = poolState
                /\ resp'[t].isError
          /\ (pc[t] = "idle" /\ tool'[t] \in DbTools /\ ~isConnected) =>
                /\ pc'[t] = "done"
                /\ resp'[t].isError
                /\ checkouts'[t] = 0
                /\ gcState'[t] = "none"
          /\ (~isConnected /\ isConnected') => \E u \in Tasks : pc[u] = "connected"]_vars

\* C8 witness: a connect has failed with no pool active, the manager holds no pool, the
\* flag is false and a database tool call has been refused without a checkout
C8_Witness ==
    \E t, u \in Tasks :
        /\ tool[t] = "oracle_connect" /\ Responded(t) /\ resp[t].isError
        /\ pool = 0 /\ ~isConnected
        /\ \A p \in 1..MaxPools : poolState[p] = "none"
        /\ tool[u] \in DbTools /\ Responded(u) /\ resp[u].err = PlainError
        /\ checkouts[u] = 0

\* the driver pools that have been created and not closed
OpenPools == {p \in 1..MaxPools : poolState[p] = "open"}

\* C9 as stated: at most one driver pool that has been created and not yet closed
\* exists.
C9_Original == Cardinality(OpenPools) <= 1

\* C10: the response of a tool call that ran an operation on a connection is the
\* operation's own outcome - success when it returned, the error it threw otherwise,
\* which for executeDml is the classification of the error its DML statement or COMMIT
\* raised - whatever the ROLLBACK and the release of the connection did.
C10_CleanupNeverMasks ==
    \A t \in Tasks :
        (Responded(t) /\ conn[t] # "none") =>
            /\ opState[t] = "returned" => resp[t] = SuccessResp
            /\ opState[t] = "threw" => resp[t] = ErrorResp(opErr[t])
            /\ opState[t] \in {"returned", "threw"}
            /\ (tool[t] = "oracle_execute_dml" /\ caught[t] # NoCaught) =>
                  resp[t] = ErrorResp(handleDmlError(caught[t][1]))

\* C10 witness: the DML statement raised, the ROLLBACK raised, the release raised, and
\* the response is the classified error of the DML statement
C10_Witness ==
    \E t \in Tasks :
        /\ Responded(t)
        /\ tool[t] = "oracle_execute_dml"
        /\ log[t] = <<Stmt("DML", "false", FALSE), Stmt("ROLLBACK", "unset", FALSE)>>
        /\ connState[t][conn[t]] = "closeFailed"
        /\ caught[t] = <<{"ORA-00001"}>>
        /\ resp[t] = ErrorResp(OracleMapError(SQL_SYNTAX_ERROR, {}))

\* C11 as stated: for the query, flashback-query, explain-plan and DML tools, a call
\* whose SQL the validator rejects performs no pool checkout, no liveness probe and no
\* release.
C11_Original ==
    \A t \in Tasks :
        (tool[t] \in SqlTools /\ argClass[t].sql = "rejected") =>
            /\ checkouts[t] = 0
            /\ \A c \in Slots : probe[t][c] = "none"
            /\ relCalls[t] = 0

\* C11 amended: for these tools the validation of the caller's SQL follows the pool
\* checkout: the validator has run only in a call whose getConnection() has returned a
\* connection (after a pool checkout and a liveness probe, with at most one retry
\* checkout); a call whose SQL is rejected submits no statement of the operation, fails
\* with the validator's SQL_SYNTAX_ERROR, and has released its connection exactly once
\* when it responds.
C11_ValidationAfterCheckout ==
    \A t \in Tasks :
        (tool[t] \in SqlTools /\ argClass[t].sql # "none") =>
            /\ gcState[t] = "returned"
            /\ conn[t] # "none"
            /\ checkouts[t] \in {1, 2}
            /\ probe[t]["c1"] # "none"
            /\ argClass[t].sql = "rejected" =>
                  /\ log[t] = <<>>
                  /\ opErr[t] = OracleMapError(SQL_SYNTAX_ERROR, {})
                  /\ relCalls[t] = (IF Responded(t) THEN 1 ELSE 0)
                  /\ Responded(t) => resp[t] = ErrorResp(opErr[t])

\* C11 witness: an oracle_query call whose SQL was rejected has responded after a
\* checkout, a failed probe, a retry checkout and one release, with no statement
C11_Witness ==
    \E t \in Tasks :
        /\ tool[t] = "oracle_query"
        /\ argClass[t].sql = "rejected"
        /\ Responded(t)
        /\ checkouts[t] = 2
        /\ probe[t]["c1"] = "failed"
        /\ relCalls[t] = 1
        /\ log[t] = <<>>

\* the tools whose engine operation validates SQL before its first statement
ValidatingTools == SqlTools \cup {"oracle_table_data"}

\* C12: in executeQuery (also when queryTable calls it), executeFlashbackQuery,
\* getExplainPlan and executeDml a statement is submitted to the driver only when the
\* operation's validator (validateSql for the read paths, validateDmlSql for DML) accepted
\* the SQL; when it rejected the SQL the operation has thrown a classified
\* SQL_SYNTAX_ERROR and no statement was executed on the connection.
C12_NoStatementUnlessValidated ==
    \A t \in Tasks :
        tool[t] \in ValidatingTools =>
            /\ log[t] # <<>> => argClass[t].sql = "accepted"
            /\ opState[t] = "running" => argClass[t].sql = "accepted"
            /\ opState[t] = "returned" => argClass[t].sql = "accepted"
            /\ argClass[t].sql = "rejected" =>
                  /\ opState[t] = "threw"
                  /\ opErr[t].cls = "OracleMapError"
                  /\ opErr[t].code = SQL_SYNTAX_ERROR
                  /\ log[t] = <<>>

\* C12 witness: executeDml or getExplainPlan was called with SQL its validator rejects
\* and threw SQL_SYNTAX_ERROR with no statement executed
C12_Witness ==
    \E t \in Tasks :
        /\ tool[t] \in {"oracle_execute_dml", "oracle_explain_plan"}
        /\ argClass[t].sql = "rejected"
        /\ opState[t] = "threw"
        /\ opErr[t] = OracleMapError(SQL_SYNTAX_ERROR, {})
        /\ log[t] = <<>>
        /\ Responded(t)

\* the tools of the model whose argument is a table name
TableTools == {"oracle_table_data", "oracle_table_count", "oracle_insert_record"}

\* C13 as stated: with a whitelist configured, a tool operation that takes a table name
\* submits no statement to the driver for a table whose upper-cased name is outside the
\* whitelist, and fails with an access-denied error instead.
C13_Original ==
    \A t \in Tasks :
        (tool[t] \in TableTools /\ argClass[t].table = "denied") =>
            /\ log[t] = <<>>
            /\ opState[t] = "threw"
            /\ opErr[t] = OracleMapError(ACCESS_DENIED, {})

\* the read operations that cap the rows of their statement
ReadCalls == {"executeQuery", "queryTable", "executeFlashbackQuery"}

\* the decimal texts of the row counts 1..1000
RowCounts == {ToString(k) : k \in 1..MAX_ROWS_LIMIT}

\* the FETCH NEXT row counts already present in the SQL the caller passed
GivenFetches == IF fnArg.kind \in {"query", "flashback"} THEN fetchValues(fnArg.sql.lex) ELSE <<>>

\* C14 as stated: for every requested limit (absent, zero, negative, above 1000) passed
\* to executeQuery, queryTable or executeFlashbackQuery, the driver is called with a
\* maxRows option in 1..1000 and every FETCH NEXT clause of the submitted statement
\* carries a value in 1..1000.
C14_Original ==
    (fn \in ReadCalls /\ fnRes.kind = "submitted") =>
        /\ fnRes.maxRows \in 1..MAX_ROWS_LIMIT
        /\ \A i \in 1..Len(fetchValues(fnRes.text)) : fetchValues(fnRes.text)[i] \in RowCounts

\* C14 amended: for every requested limit the driver is called with a maxRows option in
\* 1..1000, the operation appends a FETCH NEXT clause to the statement, and every FETCH
\* NEXT clause it appends carries a value in 1..1000; a FETCH NEXT clause already present
\* in the caller's SQL is submitted as the caller wrote it, before the appended ones.
C14_RowCap ==
    (fn \in ReadCalls /\ fnRes.kind = "submitted") =>
        LET all == fetchValues(fnRes.text)
            given == Len(GivenFetches)
        IN  /\ fnRes.maxRows \in 1..MAX_ROWS_LIMIT
            /\ Len(all) > given
            /\ SubSeq(all, 1, given) = GivenFetches
            /\ \A i \in (given + 1)..Len(all) : all[i] \in RowCounts
            /\ all[Len(all)] = ToString(fnRes.maxRows)

\* C14 witness: executeFlashbackQuery called with a timestamp and limit 0 has submitted a
\* statement whose only FETCH NEXT clause carries 1, with maxRows 1
C14_Witness ==
    /\ fn = "executeFlashbackQuery"
    /\ fnArg.limit = Num(0)
    /\ fnArg.asOfTimestamp # Undefined
    /\ fnRes.kind = "submitted"
    /\ fnRes.maxRows = 1
    /\ fetchValues(fnRes.text) = <<"1">>

\* the tools that run a read operation of the engine
ReadTools ==
    {"oracle_query", "oracle_table_data", "oracle_flashback_query", "oracle_explain_plan"}

\* the kinds of the statements of a log, in order
Kinds(L) == [i \in 1..Len(L) |-> L[i].stmt]

\* C15 as stated: on every path a read operation (executeQuery, queryTable,
\* executeFlashbackQuery, getExplainPlan) submits only non-mutating statements (queries,
\* and the EXPLAIN PLAN of a query): no data-modifying statement, no COMMIT and no
\* ROLLBACK.
C15_Original ==
    \A t \in Tasks :
        tool[t] \in ReadTools =>
            \A i \in 1..Len(log[t]) : log[t][i].stmt \in {"SELECT", "EXPLAIN PLAN"}

\* C15 amended: executeQuery, queryTable and executeFlashbackQuery submit one statement,
\* a SELECT, and nothing else; getExplainPlan submits EXPLAIN PLAN for the SQL, then the
\* SELECT of the plan, each only when the statement before succeeded, and then cleans up:
\* a DELETE on PLAN_TABLE and, only when that DELETE succeeded, a COMMIT; it returns once
\* the clean-up has been attempted, whatever the clean-up did, and no read operation
\* issues a ROLLBACK.
C15_ReadPaths ==
    \A t \in Tasks :
        LET L == log[t]
            done == opState[t] \in {"returned", "threw"}
        IN  /\ tool[t] \in ReadTools \ {"oracle_explain_plan"} =>
                  /\ Len(L) <= 1
                  /\ \A i \in 1..Len(L) : IsStmt(L[i], "SELECT")
                  /\ opState[t] = "returned" => Len(L) = 1 /\ L[1].ok
            /\ tool[t] = "oracle_explain_plan" =>
                  /\ Len(L) <= 4
                  /\ Kinds(L) = SubSeq(<<"EXPLAIN PLAN", "SELECT", "DELETE", "COMMIT">>, 1, Len(L))
                  /\ \A i \in 2..Len(L) : L[i - 1].ok
                  /\ opState[t] = "returned" => Len(L) >= 3
                  /\ (opState[t] = "returned" /\ L[3].ok) => Len(L) = 4
                  /\ opState[t] = "threw" => Len(L) <= 2

\* C15 witness: getExplainPlan has returned after EXPLAIN PLAN, the SELECT of the plan,
\* a successful DELETE on PLAN_TABLE and a COMMIT that failed, and the call succeeded
C15_Witness ==
    \E t \in Tasks :
        /\ tool[t] = "oracle_explain_plan"
        /\ opState[t] = "returned"
        /\ Kinds(log[t]) = <<"EXPLAIN PLAN", "SELECT", "DELETE", "COMMIT">>
        /\ ~log[t][4].ok
        /\ resp[t] = SuccessResp

\* C16: every tool call - of any tool name, an unknown one included, and wherever its
\* operation fails - ends by producing exactly one response: the call is over only once a
\* response exists, a response once produced is never replaced, it is either a success
\* payload or an error payload flagged isError and never both, and every failure (of
\* checkConnection, of getConnection, of the engine operation, of an unknown name) gives the
\* error payload.
C16_OneResponsePerCall ==
    [][\A t \in Tasks :
          /\ resp[t] # NoResp =>
                \/ resp'[t] = resp[t]
                \/ pc[t] = "done" /\ pc'[t] = "idle" /\ resp'[t] = NoResp
          /\ (pc[t] # "done" /\ pc'[t] = "done") => resp[t] = NoResp
          /\ (pc[t] # "idle" /\ pc'[t] = "idle") => pc[t] = "done" /\ Responded(t)
          /\ pc'[t] = "done" =>
                /\ resp'[t].kind = "response"
                /\ resp'[t].isError <=> resp'[t].err # NoErr
                /\ (tool'[t] = "unknown" \/ opState'[t] = "threw" \/ gcState'[t] = "threw")
                      => resp'[t].isError
                /\ pc[t] \in {"idle", "createPool", "checkout", "retry"} => resp'[t].isError
                /\ (opState'[t] = "returned" \/ pc[t] \in {"connected", "disconnecting"})
                      => ~resp'[t].isError
          /\ pc'[t] # "done" => resp'[t] = NoResp]_vars

\* C16 witness: a call of an unknown tool has ended with one error response
C16_Witness ==
    \E t \in Tasks :
        /\ tool[t] = "unknown"
        /\ resp[t] = ErrorResp(PlainError)
        /\ pc[t] = "done"

\* keyword occurs in the text as a standalone token, in any letter case: a whole word,
\* whatever delimits it
OccursAsWord(lex, keyword) == \E i \in 1..Len(lex) : toUpperCase(lex[i]) = keyword

\* keyword occurs in the text as a whole word, in any letter case, between delimiters
\* of the set delims (or the ends of the text)
OccursBetween(lex, keyword, delims) ==
    \E i \in 1..Len(lex) :
        /\ toUpperCase(lex[i]) = keyword
        /\ (i = 1 \/ lex[i - 1] \in delims)
        /\ (i = Len(lex) \/ lex[i + 1] \in delims)

\* the first lexeme of the text that is not whitespace has the word as a prefix,
\* whatever its letter case
BeginsWith(lex, word) ==
    \E i \in 1..Len(lex) :
        /\ \A j \in 1..(i - 1) : lex[j] \in Whitespace
        /\ lex[i] \notin Whitespace
        /\ \/ toUpperCase(lex[i]) = word
           \/ <<toUpperCase(lex[i]), word>> \in PrefixPairs

\* C17 as stated: for every SQL string in which one of DROP, DELETE, UPDATE, INSERT,
\* TRUNCATE, ALTER, CREATE appears as a standalone token anywhere in the statement (in any
\* letter case, whatever delimits the token: whitespace, ';', '(' or ')'), validateSql
\* returns invalid.
C17_Original ==
    (fn = "validateSql" /\ fnArg.sql.str) =>
        ((\E k \in {"DROP", "DELETE", "UPDATE", "INSERT", "TRUNCATE", "ALTER", "CREATE"} :
              OccursBetween(fnArg.sql.lex, k, Whitespace \cup {";", "(", ")"}))
            => ~fnRes.verdict.valid)

\* C18: for every input that is empty, not a string, or a string that does not start
\* with SELECT (in any letter case, leading whitespace ignored), validateSql returns
\* invalid.
C18_NonSelectInvalid ==
    fn = "validateSql" =>
        ((~fnArg.sql.str \/ fnArg.sql.lex = <<>> \/ ~BeginsWith(fnArg.sql.lex, "SELECT"))
            => ~fnRes.verdict.valid)

\* C18 witness: a statement that contains SELECT but begins with another word was
\* refused as not being a SELECT
C18_Witness ==
    /\ fn = "validateSql"
    /\ fnArg.sql.str
    /\ OccursAsWord(fnArg.sql.lex, "SELECT")
    /\ ~BeginsWith(fnArg.sql.lex, "SELECT")
    /\ fnArg.sql.lex[1] \in Whitespace
    /\ fnRes.verdict = [valid |-> FALSE, error |-> "only SELECT", keyword |-> ""]

\* the call is validateDmlSql on a statement that starts with UPDATE and has no
\* standalone WHERE
UpdateWithoutWhere ==
    /\ fn = "validateDmlSql"
    /\ fnArg.sql.str
    /\ BeginsWith(fnArg.sql.lex, "UPDATE")
    /\ ~OccursAsWord(fnArg.sql.lex, "WHERE")

\* C19 as stated: for every statement that starts with UPDATE and contains no standalone
\* WHERE token, validateDmlSql returns invalid and the reported reason is the
\* WHERE-required message.
C19_Original ==
    UpdateWithoutWhere =>
        (~fnRes.verdict.valid /\ fnRes.verdict.error = "WHERE required")

\* C19 amended: for every statement that starts with UPDATE and contains no standalone
\* WHERE token, validateDmlSql returns invalid; the reported reason is the WHERE-required
\* message, unless the blacklist scan, which runs first, matched a keyword of the
\* statement, and then it is the forbidden-keyword message naming that keyword.
C19_UpdateNeedsWhere ==
    UpdateWithoutWhere =>
        /\ ~fnRes.verdict.valid
        /\ fnRes.verdict.error \in {"WHERE required", "forbidden keyword"}
        /\ fnRes.verdict.error = "forbidden keyword" =>
               /\ fnRes.verdict.keyword \in Elems(DML_BLACKLIST_KEYWORDS)
               /\ OccursAsWord(fnArg.sql.lex, fnRes.verdict.keyword)
        /\ (\A k \in Elems(DML_BLACKLIST_KEYWORDS) : ~OccursAsWord(fnArg.sql.lex, k)) =>
               fnRes.verdict.error = "WHERE required"

\* C19 witness: an UPDATE whose only WHERE-like text is the identifier WHERE_X, and that
\* holds no blacklisted word, was refused with the WHERE-required message
C19_Witness ==
    /\ UpdateWithoutWhere
    /\ \E i \in 1..Len(fnArg.sql.lex) : fnArg.sql.lex[i] = "WHERE_X"
    /\ \A k \in Elems(DML_BLACKLIST_KEYWORDS) : ~OccursAsWord(fnArg.sql.lex, k)
    /\ fnRes.verdict.error = "WHERE required"
    /\ ~fnRes.verdict.valid

\* the call is validateDmlSql on a statement that starts with INSERT or UPDATE
DmlStatement ==
    /\ fn = "validateDmlSql"
    /\ fnArg.sql.str
    /\ \E v \in Elems(DML_ALLOWED_VERBS) : BeginsWith(fnArg.sql.lex, v)

\* C20 as stated: validateDmlSql rejects every INSERT/UPDATE statement in which one of
\* DELETE, TRUNCATE, DROP, ALTER, CREATE, GRANT, REVOKE occurs as a whole word under
\* word-boundary matching (for example directly after ';', ',', '=' or ')'), and does not
\* reject, for a forbidden keyword, a statement in which such a keyword occurs only inside
\* a longer identifier such as DELETED_FLAG.
C20_Original ==
    DmlStatement =>
        /\ (\E k \in Elems(DML_BLACKLIST_KEYWORDS) : OccursAsWord(fnArg.sql.lex, k))
               => ~fnRes.verdict.valid
        /\ (\A k \in Elems(DML_BLACKLIST_KEYWORDS) : ~OccursAsWord(fnArg.sql.lex, k))
               => fnRes.verdict.error # "forbidden keyword"

\* clamp(x, lo, hi) of the specification
Clamp(x, lo, hi) == IF x < lo THEN lo ELSE IF x > hi THEN hi ELSE x

Positive(n) == n # Undefined /\ n[1] > 0

\* the statement text buildPaginatedSql keeps: the base SQL without the whitespace around
\* it and without one semicolon at its end
KeptText(baseSql) ==
    LET t == trim(baseSql)
    IN  IF t # <<>> /\ t[Len(t)] = ";" THEN SubSeq(t, 1, Len(t) - 1) ELSE t

\* the clauses of the specification
OffsetClause(n) == <<"OFFSET", " ", ToString(n), " ", "ROWS">>
FetchClause(n) == <<"FETCH", " ", "NEXT", " ", ToString(n), " ", "ROWS", " ", "ONLY">>

\* C22: for every base SQL, limit and offset, buildPaginatedSql appends an
\* OFFSET <offset> ROWS clause exactly when offset > 0, appends FETCH NEXT <limit> ROWS
\* ONLY exactly when limit > 0 (preceded by OFFSET 0 ROWS when no offset clause was
\* emitted), always places OFFSET before FETCH, and appends nothing when neither limit nor
\* offset is positive.
C22_PaginationClauses ==
    fn = "buildPaginatedSql" =>
        LET kept == KeptText(fnArg.sql.lex)
            lim == fnArg.limit
            off == fnArg.offset
        IN  /\ fnRes.kind = "value"
            /\ (Positive(off) /\ Positive(lim)) =>
                   fnRes.value = kept \o <<" ">> \o OffsetClause(off[1]) \o <<" ">>
                                      \o FetchClause(lim[1])
            /\ (Positive(off) /\ ~Positive(lim)) =>
                   fnRes.value = kept \o <<" ">> \o OffsetClause(off[1])
            /\ (~Positive(off) /\ Positive(lim)) =>
                   fnRes.value = kept \o <<" ">> \o OffsetClause(0) \o <<" ">>
                                      \o FetchClause(lim[1])
            /\ (~Positive(off) /\ ~Positive(lim)) => fnRes.value = kept

\* C22 witness: a limit without an offset gave OFFSET 0 ROWS before the FETCH clause
C22_Witness ==
    /\ fn = "buildPaginatedSql"
    /\ fnArg.limit = Num(5)
    /\ fnArg.offset = Undefined
    /\ fnRes.kind = "value"
    /\ fnRes.value = KeptText(fnArg.sql.lex) \o <<" ">> \o OffsetClause(0) \o <<" ">>
                         \o FetchClause(5)

\* a whitelist is configured: the setting has some text other than whitespace
WhitelistConfigured(env) ==
    env # Undefined /\ \E i \in 1..Len(env) : env[i] \notin Whitespace

\* the upper-cased names of the setting
WhitelistNames(env) ==
    {toUpperCase(env[i]) : i \in {j \in 1..Len(env) : env[j] \notin Whitespace \cup {","}}}

\* C23: checkTableAccess(name) returns allowed if and only if no whitelist is configured
\* or the upper-cased name is a member of the upper-cased whitelist (comparison is
\* case-insensitive); when it denies, the returned message lists the allowed set.
C23_WhitelistMembership ==
    fn = "checkTableAccess" =>
        /\ fnRes.value.allowed <=>
               \/ ~WhitelistConfigured(fnArg.env)
               \/ toUpperCase(fnArg.table) \in WhitelistNames(fnArg.env)
        /\ ~fnRes.value.allowed =>
               /\ fnRes.value.message.table = fnArg.table
               /\ {<<n>> : n \in WhitelistNames(fnArg.env)}
                      = {fnRes.value.message.allowedTables[i] :
                             i \in 1..Len(fnRes.value.message.allowedTables)}

\* C23 witness: a table outside a whitelist of two names, one of them written in mixed
\* case, was denied with the two upper-cased names in the message
C23_Witness ==
    /\ fn = "checkTableAccess"
    /\ fnArg.env = <<"EMPLOYEES", ",", " ", "Orders", " ">>
    /\ fnArg.table = "DEPT"
    /\ fnRes.value = [allowed |-> FALSE,
                      message |-> DeniedMessage("DEPT", << <<"EMPLOYEES">>, <<"ORDERS">> >>)]

\* the text ends with the truncation marker
EndsWithMarker(str) == str # <<>> /\ str[Len(str)] = Seg("mark", MarkerLength)

\* the value cut to its first m characters with the truncation marker appended
CutAndMarked(str, m) == Str(substring(str, m) \o <<Seg("mark", MarkerLength)>>)

\* C24 as stated: for every string or binary value passed to mapValue: if its size
\* exceeds its configured threshold (4000 characters for strings, 1024 bytes for binaries)
\* the result is the value cut to exactly the threshold with the truncation marker
\* appended; if its size is at or below the threshold the result is the value unchanged
\* (base64 of the whole value for binaries) and does not end with the truncation marker -
\* so a result ends with the marker if and only if truncation occurred.
C24_Original ==
    fn = "mapValue" =>
        /\ fnArg.value.t = "string" =>
               IF length(fnArg.value.segs) > 4000
               THEN fnRes.value = CutAndMarked(fnArg.value.segs, 4000)
               ELSE fnRes.value = fnArg.value /\ ~EndsWithMarker(fnRes.value.segs)
        /\ fnArg.value.t = "buffer" =>
               IF fnArg.value.n > 1024
               THEN fnRes.value = Str(<<Seg("base64", 1024), Seg("mark", MarkerLength)>>)
               ELSE /\ fnRes.value = Str(IF fnArg.value.n = 0 THEN <<>>
                                         ELSE <<Seg("base64", fnArg.value.n)>>)
                    /\ ~EndsWithMarker(fnRes.value.segs)

\* the threshold of a string in a column of the type: 2048 characters in a BLOB, RAW or
\* LONG RAW column, 4000 in any other
StringThreshold(oracleType) ==
    IF oracleType # <<>> /\ toUpperCase(oracleType[1]) \in {"BLOB", "RAW", "LONG RAW"}
    THEN 2048 ELSE 4000

\* C24 amended: for every string or binary value passed to mapValue: if its size exceeds
\* its configured threshold (4000 characters for strings, 2048 characters for strings of
\* a BLOB, RAW or LONG RAW column, 1024 bytes for binaries) the result is the value cut to
\* exactly the threshold with the truncation marker appended; if its size is at or below
\* the threshold the result is the value unchanged (base64 of the whole value for
\* binaries), and it ends with the truncation marker only if the value itself does - so
\* a truncated result always ends with the marker.
C24_Truncation ==
    fn = "mapValue" =>
        /\ fnArg.value.t = "string" =>
               IF length(fnArg.value.segs) > StringThreshold(fnArg.oracleType)
               THEN /\ fnRes.value
                           = CutAndMarked(fnArg.value.segs, StringThreshold(fnArg.oracleType))
                    /\ EndsWithMarker(fnRes.value.segs)
               ELSE /\ fnRes.value = fnArg.value
                    /\ EndsWithMarker(fnRes.value.segs) => EndsWithMarker(fnArg.value.segs)
        /\ fnArg.value.t = "buffer" =>
               IF fnArg.value.n > 1024
               THEN fnRes.value = Str(<<Seg("base64", 1024), Seg("mark", MarkerLength)>>)
               ELSE /\ fnRes.value = Str(IF fnArg.value.n = 0 THEN <<>>
                                         ELSE <<Seg("base64", fnArg.value.n)>>)
                    /\ ~EndsWithMarker(fnRes.value.segs)

\* C24 witness: a string of 2049 characters in a BLOB column came back as its first 2048
\* characters and the marker
C24_Witness ==
    /\ fn = "mapValue"
    /\ fnArg.value = Str(<<Seg("body", 2049)>>)
    /\ fnArg.oracleType = <<"BLOB">>
    /\ fnRes.value = Str(<<Seg("body", 2048), Seg("mark", MarkerLength)>>)

\* the cell of column i is SQL NULL: null, undefined, or missing from the row
CellIsNull(row, columns, i) ==
    IF row.shape = "array"
    THEN i > Len(row.cells) \/ row.cells[i].t \in {"null", "undefined"}
    ELSE \A j \in 1..Len(row.cells) :
             row.cells[j].k = columns[i].name[1] => row.cells[j].v.t \in {"null", "undefined"}

\* C25: for every driver row (array-shaped or object-shaped) and every column descriptor,
\* the normalized row produced by mapRow has a key for that column, and when the cell is
\* SQL NULL (null, undefined, or missing from the row) the key's value is null - never
\* absent, never an empty string, never undefined.
C25_NullCells ==
    fn = "mapRow" =>
        \A i \in 1..Len(fnArg.columns) :
            /\ \E j \in 1..Len(fnRes.value) : fnRes.value[j].k = fnArg.columns[i].name[1]
            /\ CellIsNull(fnArg.row, fnArg.columns, i) =>
                   \A j \in 1..Len(fnRes.value) :
                       fnRes.value[j].k = fnArg.columns[i].name[1]
                           => fnRes.value[j].v = [t |-> "null"]

\* C25 witness: an object row without the property of a column, and with undefined
\* under another, has both keys with the value null
C25_Witness ==
    /\ fn = "mapRow"
    /\ fnArg.row = ObjectRow(<<[k |-> "NAME", v |-> JsUndefined], [k |-> "AGE", v |-> Number]>>)
    /\ fnRes.value = <<[k |-> "NAME", v |-> JsNull], [k |-> "AGE", v |-> Number],
                       [k |-> "EMAIL", v |-> JsNull]>>

\* the exit code of the numeric class of an error code: the hundreds 1 to 4 are the
\* connection, configuration, query and output classes, anything else is unknown
ExitOfClass(code) == IF code \div 100 \in 1..4 THEN code \div 100 ELSE 99

\* C26: for every error kind, getExitCode returns the exit code of the kind's numeric
\* class (1xx -> 1 connection, 2xx -> 2 configuration, 3xx -> 3 query, 4xx -> 4 output,
\* anything else -> 99 unknown): different classes get different codes, no error kind maps
\* to 0 (0 is reserved for success), and every OracleMapError's exitCode equals
\* getExitCode of its code.
C26_ExitCodes ==
    /\ fn = "getExitCode" =>
           /\ fnRes.value = ExitOfClass(fnArg.code)
           /\ fnRes.value # 0
    /\ fn = "OracleMapError" =>
           /\ fnRes.value.code = fnArg.code
           /\ fnRes.value.exitCode = ExitOfClass(fnArg.code)
           /\ fnRes.value.exitCode # 0

\* C26 witness: an OracleMapError of an output error carries exit code 4
C26_Witness ==
    /\ fn = "OracleMapError"
    /\ fnArg.code = WRITE_PERMISSION_DENIED
    /\ fnRes.value.exitCode = 4

\* the statement embeds a timestamp literal: TO_TIMESTAMP('...'
HasLiteral(sql) ==
    \E i \in 1..Len(sql) : sql[i] = "TO_TIMESTAMP" /\ i + 2 <= Len(sql) /\ sql[i + 2] = "'"

\* the text between the quotes of the first timestamp literal of the statement
TimestampLiteral(sql) ==
    LET i == CHOOSE k \in 1..Len(sql) :
                 /\ sql[k] = "TO_TIMESTAMP"
                 /\ \A j \in 1..(k - 1) : sql[j] # "TO_TIMESTAMP"
        close == CHOOSE k \in (i + 3)..Len(sql) :
                     sql[k] = "'" /\ \A j \in (i + 3)..(k - 1) : sql[j] # "'"
    IN  SubSeq(sql, i + 3, close - 1)

\* the date and time part of an ISO 8601 timestamp as 'YYYY-MM-DD HH:MM:SS': its first
\* eleven pieces, with a space for the T
DateTimePart(ts) == [i \in 1..11 |-> IF ts[i] = "T" THEN " " ELSE ts[i]]

\* C27 as stated: for every ISO-8601 timestamp passed to buildFlashbackSql (with or
\* without fractional seconds, with a zone suffix Z or a numeric offset such as +08:00,
\* or with no suffix), the timestamp literal embedded in the rewritten SQL is exactly the
\* date and time part 'YYYY-MM-DD HH:MM:SS': the fractional seconds and the zone suffix
\* are discarded.
C27_Original ==
    (fn = "buildFlashbackSql" /\ HasLiteral(fnRes.value)) =>
        TimestampLiteral(fnRes.value) = DateTimePart(fnArg.asOfTimestamp)

\* the number of lexemes of the statement that are the word
CountOf(sql, word) == Cardinality({i \in 1..Len(sql) : sql[i] = word})

\* the row limit of the specification for a requested limit: the default 100 when none
\* is given, otherwise the request clamped to 1..1000
SafeLimit(limit) == IF limit = Undefined THEN 100 ELSE Clamp(limit[1], 1, MAX_ROWS_LIMIT)

\* C28 as stated: for every table name, limit and offset, the statement that queryTable
\* submits to the driver is SELECT * FROM <TABLE> followed by exactly one pagination
\* suffix: at most one OFFSET clause and exactly one FETCH NEXT clause, whose value is
\* enforceRowLimit(limit), with the driver's maxRows option equal to that same value.
C28_Original ==
    (fn = "queryTable" /\ fnRes.kind = "submitted") =>
        /\ SubSeq(fnRes.text, 1, 7)
               = <<"SELECT", " ", "*", " ", "FROM", " ", toUpperCase(fnArg.table)>>
        /\ CountOf(fnRes.text, "OFFSET") <= 1
        /\ fetchValues(fnRes.text) = <<ToString(SafeLimit(fnArg.limit))>>
        /\ fnRes.maxRows = SafeLimit(fnArg.limit)

\* C29 as stated: every connection that getConnection() returns to its caller has passed
\* a liveness probe within that same call, after it was checked out and before it was
\* handed over - including a connection obtained by the retry checkout.
C29_Original ==
    \A t \in DbTasks :
        gcState[t] = "returned" => (conn[t] \in Slots /\ probe[t][conn[t]] = "ok")

\* a connect or disconnect tool call of the task is in progress
SwitchInProgress(t) ==
    tool[t] \in {"oracle_connect", "oracle_disconnect"} /\ pc[t] \notin {"idle", "done"}

\* C30 as stated: under every interleaving of connect and disconnect tool calls and every
\* driver outcome, whenever no connect or disconnect is in progress the server's connected
\* flag is true if and only if the connection manager holds an active pool; hence a tool
\* call that passes checkConnection never fails because the pool is not initialized, and
\* a refused tool call never leaves an open pool behind.
C30_Original ==
    (\A t \in Tasks : ~SwitchInProgress(t)) => (isConnected <=> pool # 0)

====
